---- MODULE Spec2Model ----
(***************************************************************************)
(* Verification model of the leaflet data-exploration prototypes.          *)
(*                                                                         *)
(*   SpecExplorer   arrow-dashboard/main.py, class ArrowDataExplorer       *)
(*   SpecDashboard  builds/Iter 36 - final with stats/build_dashboard.py   *)
(*   SpecConfig     data_loader.py, class DataExplorerConfig               *)
(*   SpecInfer      iterations/v4-focused and v5-production data_loader.py *)
(*                                                                         *)
(* Python's None is the empty tuple and a present value x is <<x>>, so a   *)
(* field that is "None or a table" is compared without mixing types.      *)
(* Text is a tuple of one-character strings.                               *)
(***************************************************************************)
EXTENDS Integers, Sequences, FiniteSets, TLC

VARIABLES
    \* ---- ArrowDataExplorer (arrow-dashboard/main.py)
    df,            \* self.df: None or the current (possibly filtered) table
    original_df,   \* self.original_df: None or the clone taken at load time
    file_path,     \* self.file_path: None or the temp file of the last load
    temp_files,    \* self.temp_files: temp files created so far
    status,        \* what update_status last put in the status panel
    notice,        \* what show_error last sent to the notification area
    escaped,       \* exception that left the last handler uncaught, or "none"
    polarsBool,    \* what bool(DataFrame) does in the installed polars
    loaded,        \* history: the table of the last successful load
    dfBefore,      \* history: self.df when the last handler started
    lastOp,        \* history: the handler that ran last
    plot_area,     \* self.plot_area.object: "empty" or the figure shown
    plot_times,    \* self.plot_times: how many times it holds
    lastCall,      \* history: None, or the widget values of the last call
    attributes,    \* the names in the instance's __dict__
    \* ---- build_dashboard.py
    dashInput,     \* the call under test: an array for encode_typed_array,
                   \* or a command line for main
    encOut,        \* None, or the payload encode_typed_array returned
    mainRun,       \* None, or what main did and returned
    \* ---- DataExplorerConfig (data_loader.py)
    config,        \* self.config
    cfgMode,       \* the way the calls are driven, fixed at the start
    cfgRaised,     \* the last call raised to its caller
    cfgBefore,     \* history: self.config when the last call started, kept
                   \* when that call raised
    cfgCall,       \* history: the last call and its argument
    cfgCleared,    \* history: set_chart_types([]) ran and no load or other
                   \* set_chart_types since
    cfgAdded,      \* history: the charts given to add_chart since the last
                   \* load or set_chart_types
    \* ---- iterations/v4-focused and v5-production data_loader.py
    program,       \* which of the two scripts runs: "v4" or "v5"
    loader,        \* v4: the SimpleDataLoader's data, columns and title
    generated,     \* v5: None, or what the last load_and_generate did
    inferInput,    \* history: None, or the table the last call read
    template,      \* data_explorer.html lies next to the v5 script
    \* ---- iterations/v6-extended load_your_data.py and embed_data.py
    v6Template,    \* which data_explorer.html lies next to the v6 scripts
    v6Csv,         \* history: None, or the CSV the script read
    v6Page,        \* None, or the page the script wrote
    v6Data,        \* None, or the typed arrays once the page has loaded
    \* ---- scripts/csv_to_dashboard.py and csv_to_selectable_dashboard.py
    scriptCall,    \* None, or the function called and its input
    scriptOut,     \* None, or what the call returned
    \* ---- scripts/archive/build_embedded_html.py
    files,         \* the files on disk: html, arrow, output (None: no file)
    linesep,       \* os.linesep of the platform
    buildCall,     \* None, or the function called
    buildBefore,   \* the output file before the call
    buildRet,      \* None, or what the call returned
    \* ---- git_commit.py and run_git.py
    gitRepo,       \* the working copy: commits, remote origin, branch,
                   \* what was pushed, build files lying around
    gitProg,       \* the script that ran last, "none" before any ran
    gitRan,        \* the git commands the last run attempted, in order,
                   \* each with its outcome
    gitRet,        \* None, or what the last run returned
    gitBefore      \* history: the working copy when the last run started

explorerVars ==
    <<df, original_df, file_path, temp_files, status, notice, escaped,
      polarsBool, loaded, dfBefore, lastOp, plot_area, plot_times, lastCall,
      attributes>>

dashVars == <<dashInput, encOut, mainRun>>

configVars == <<config, cfgMode, cfgRaised, cfgBefore, cfgCall, cfgCleared, cfgAdded>>

inferVars == <<program, loader, generated, inferInput, template>>

v6Vars == <<v6Template, v6Csv, v6Page, v6Data>>

scriptVars == <<scriptCall, scriptOut>>

buildVars == <<files, linesep, buildCall, buildBefore, buildRet>>

gitVars == <<gitRepo, gitProg, gitRan, gitRet, gitBefore>>

vars ==
    <<explorerVars, dashVars, configVars, inferVars, v6Vars, scriptVars,
      buildVars, gitVars>>

otherThanExplorer ==
    <<dashVars, configVars, inferVars, v6Vars, scriptVars, buildVars,
      gitVars>>

otherThanDash ==
    <<explorerVars, configVars, inferVars, v6Vars, scriptVars, buildVars,
      gitVars>>

otherThanConfig ==
    <<explorerVars, dashVars, inferVars, v6Vars, scriptVars, buildVars,
      gitVars>>

otherThanInfer ==
    <<explorerVars, dashVars, configVars, v6Vars, scriptVars, buildVars,
      gitVars>>

otherThanV6 ==
    <<explorerVars, dashVars, configVars, inferVars, scriptVars, buildVars,
      gitVars>>

otherThanScripts ==
    <<explorerVars, dashVars, configVars, inferVars, v6Vars, buildVars,
      gitVars>>

otherThanBuild ==
    <<explorerVars, dashVars, configVars, inferVars, v6Vars, scriptVars,
      gitVars>>

otherThanGit ==
    <<explorerVars, dashVars, configVars, inferVars, v6Vars, scriptVars,
      buildVars>>

-----------------------------------------------------------------------------
(* Common helpers *)

None == <<>>

Some(x) == <<x>>

The(o) == o[1]

Range(s) == {s[i] : i \in 1..Len(s)}

Min2(a, b) == IF a <= b THEN a ELSE b

RECURSIVE SeqsUpTo(_, _)
\* every tuple over S of length at most n
SeqsUpTo(S, n) ==
    IF n = 0 THEN {<<>>}
    ELSE LET shorter == SeqsUpTo(S, n - 1)
         IN  shorter \cup {Append(s, x) : s \in shorter, x \in S}

-----------------------------------------------------------------------------
(* ArrowDataExplorer *)

\* Bounds of the explorer model
MaxLoads == 2
MaxValueLen == 2

Digits == {"1", "2"}

ValueChars == {"1", "2", "a", "("}

\* what the user can type in the 'Filter Value' box
FilterValues == SeqsUpTo(ValueChars, MaxValueLen)

\* options of the 'Filter Operator' select (main.py:231)
FilterOperators == {"==", "!=", ">", "<", ">=", "<=", "contains", "starts_with"}

\* the 'Filter Column' select: nothing selected, a column of the tables, or a
\* name that is no column of the loaded table
FilterColumns == {None, Some("n"), Some("s"), Some("zz")}

\* Arrow files a user can upload: each an integer column n and a text column s
TableA ==
    <<[n |-> 1, s |-> <<"a">>],
      [n |-> 2, s |-> <<"a", "1">>],
      [n |-> 12, s |-> <<"1">>]>>

TableB == <<[n |-> 2, s |-> <<"(">>], [n |-> 2, s |-> <<"2", "a">>]>>

TableEmpty == <<>>

Tables == {TableA, TableB, TableEmpty}

TableColumns == {"n", "s"}

NumericColumns == {"n"}

\* event.value of the FileInput: nothing, the bytes of a table, or bytes that
\* are no Arrow IPC file
Uploads == {[kind |-> "empty"], [kind |-> "garbage"]}
           \cup {[kind |-> "arrow", table |-> t] : t \in Tables}

\* `not self.df`: None is falsy; for a DataFrame, polars either raises
\* TypeError (the truth value of a DataFrame is ambiguous) or, before that
\* was added, Python falls back to __len__
NotDf(d) ==
    IF d = None THEN "true"
    ELSE IF polarsBool = "raises" THEN "TypeError"
    ELSE IF Len(The(d)) = 0 THEN "true" ELSE "false"

RECURSIVE ParseDigits(_)
\* float(value) for a text of digits
ParseDigits(v) ==
    IF Len(v) = 0 THEN 0
    ELSE 10 * ParseDigits(SubSeq(v, 1, Len(v) - 1))
         + (IF v[Len(v)] = "1" THEN 1 ELSE 2)

\* float(value) succeeds
IsFloatText(v) == Len(v) > 0 /\ \A i \in 1..Len(v) : v[i] \in Digits

StartsWith(s, v) == Len(v) <= Len(s) /\ SubSeq(s, 1, Len(v)) = v

Contains(s, v) ==
    \E i \in 0..(Len(s) - Len(v)) : SubSeq(s, i + 1, i + Len(v)) = v

\* the text is a valid regular expression ("(" alone opens a group that is
\* never closed)
IsRegex(v) == \A i \in 1..Len(v) : v[i] # "("

\* The outcomes of lines 575-590 for a DataFrame t: each is None (an
\* exception was raised and self.df not assigned) or the filtered table
\* (DataFrame.filter keeps the rows for which the predicate holds, in order).
FilterOutcomes(t, column, operator, value) ==
    IF column \notin TableColumns THEN {None}
    ELSE IF operator \in {"==", "!="} THEN
        IF column \in NumericColumns
        THEN \* a number column against a text literal: polars raises, or
             \* (older releases) compares and finds no row equal
             {None,
              Some(IF operator = "==" THEN <<>> ELSE t)}
        ELSE LET eq(r) == r.s = value
                 ne(r) == r.s # value
             IN  {Some(IF operator = "==" THEN SelectSeq(t, eq)
                       ELSE SelectSeq(t, ne))}
    ELSE IF operator \in {">", "<", ">=", "<="} THEN
        IF ~IsFloatText(value) THEN {None}
        ELSE IF column \notin NumericColumns THEN {None}
        ELSE LET x == ParseDigits(value)
                 gt(r) == r.n > x
                 lt(r) == r.n < x
                 ge(r) == r.n >= x
                 le(r) == r.n <= x
             IN  {Some(CASE operator = ">" -> SelectSeq(t, gt)
                         [] operator = "<" -> SelectSeq(t, lt)
                         [] operator = ">=" -> SelectSeq(t, ge)
                         [] operator = "<=" -> SelectSeq(t, le))}
    ELSE IF column \in NumericColumns THEN {None}
    ELSE IF operator = "contains" THEN
        IF ~IsRegex(value) THEN {None}
        ELSE LET has(r) == Contains(r.s, value)
             IN  {Some(SelectSeq(t, has))}
    ELSE LET pre(r) == StartsWith(r.s, value)
         IN  {Some(SelectSeq(t, pre))}

\* the attributes __init__ assigns, with those of setup_ui and
\* create_tabbed_layout, which it calls
InstanceAttributes ==
    {"df", "file_path", "original_df", "temp_files", "loading_state",
     "last_plot_time", "plot_cache", "load_times", "plot_times",
     "header", "file_input", "status_panel", "file_info", "preview_page",
     "data_preview", "x_column", "y_column", "plot_type", "filter_panel",
     "plot_controls", "export_panel", "performance_panel", "plot_area",
     "tabs", "layout"}

\* the methods of class ArrowDataExplorer
ClassAttributes ==
    {"__init__", "setup_ui", "setup_advanced_features",
     "create_tabbed_layout", "cleanup_temp_files", "load_file",
     "update_file_info", "get_file_size", "update_performance_metrics",
     "update_data_preview", "update_column_selectors", "update_status",
     "apply_advanced_filter", "reset_filter", "create_auto_plots",
     "create_plot", "get_numeric_columns", "get_categorical_columns",
     "get_datetime_columns", "create_histogram_plot", "create_scatter_plot",
     "create_box_plot", "create_line_plot", "create_bar_plot",
     "create_violin_plot", "create_heatmap_plot", "create_3d_scatter_plot",
     "create_surface_plot", "export_data", "generate_report",
     "analyze_memory", "enable_controls", "show_error", "serve", "__del__"}

\* hasattr(app, name) on an ArrowDataExplorer whose __dict__ holds names
hasattr(names, name) == name \in names \cup ClassAttributes

ExplorerInit ==
    /\ attributes = InstanceAttributes
    /\ df = None
    /\ original_df = None
    /\ file_path = None
    /\ temp_files = <<>>
    /\ status = "welcome"
    /\ notice = "none"
    /\ escaped = "none"
    /\ polarsBool \in {"raises", "len"}
    /\ loaded = None
    /\ dfBefore = None
    /\ lastOp = "init"
    /\ plot_area = "empty"
    /\ plot_times = 0
    /\ lastCall = None

ConfigIdle ==
    /\ config = <<>>
    /\ cfgMode = "idle"
    /\ cfgRaised = FALSE
    /\ cfgBefore = <<>>
    /\ cfgCall = <<>>
    /\ cfgCleared = FALSE
    /\ cfgAdded = <<>>

BuildIdle ==
    /\ files = <<>>
    /\ linesep = <<>>
    /\ buildCall = <<>>
    /\ buildBefore = <<>>
    /\ buildRet = <<>>

GitIdle ==
    /\ gitRepo = <<>>
    /\ gitProg = "idle"
    /\ gitRan = <<>>
    /\ gitRet = <<>>
    /\ gitBefore = <<>>

ScriptsIdle ==
    /\ scriptCall = <<>>
    /\ scriptOut = <<>>

V6Idle ==
    /\ v6Template = "none"
    /\ v6Csv = <<>>
    /\ v6Page = <<>>
    /\ v6Data = <<>>

InferIdle ==
    /\ program = "idle"
    /\ loader = <<>>
    /\ generated = <<>>
    /\ inferInput = <<>>
    /\ template = FALSE

DashIdle ==
    /\ dashInput = None
    /\ encOut = None
    /\ mainRun = None

\* load_file(event)
load_file ==
    \E up \in Uploads :
        /\ Len(temp_files) < MaxLoads
        /\ lastOp' = "load_file"
        /\ UNCHANGED otherThanExplorer
        /\ dfBefore' = df
        /\ escaped' = "none"
        /\ UNCHANGED polarsBool
        /\ lastCall' = None
        /\ attributes' = attributes
        /\ IF up.kind = "empty"
           THEN UNCHANGED <<df, original_df, file_path, temp_files, status,
                            notice, loaded, plot_area, plot_times>>
           ELSE LET name == Len(temp_files) + 1
                IN  /\ temp_files' = Append(temp_files, name)
                    /\ IF up.kind = "garbage"
                       THEN \* pa.ipc.open_file raises
                            /\ status' = "load_failed"
                            /\ notice' = "File loading failed"
                            /\ UNCHANGED <<df, original_df, file_path, loaded,
                                           plot_area, plot_times>>
                       ELSE /\ df' = Some(up.table)
                            /\ original_df' = Some(up.table)
                            /\ file_path' = Some(name)
                            /\ loaded' = Some(up.table)
                            \* update_file_info() starts with `not self.df`
                            /\ IF polarsBool = "raises"
                               THEN /\ status' = "load_failed"
                                    /\ notice' = "File loading failed"
                                    /\ UNCHANGED <<plot_area, plot_times>>
                               ELSE \* the UI refresh finishes and
                                    \* create_auto_plots draws the table
                                    \* (an empty one is `not self.df`), or
                                    \* raises inside its own try, or the
                                    \* refresh raises
                                    \/ /\ status' = "loaded"
                                       /\ UNCHANGED notice
                                       /\ IF Len(up.table) = 0
                                          THEN UNCHANGED <<plot_area, plot_times>>
                                          ELSE /\ plot_area' = "auto"
                                               /\ plot_times' = plot_times + 1
                                    \/ /\ Len(up.table) > 0
                                       /\ status' = "loaded"
                                       /\ notice' = "Auto plot creation failed"
                                       /\ UNCHANGED <<plot_area, plot_times>>
                                    \/ /\ status' = "load_failed"
                                       /\ notice' = "File loading failed"
                                       /\ UNCHANGED <<plot_area, plot_times>>

\* apply_advanced_filter(event)
apply_advanced_filter ==
    \E column \in FilterColumns, operator \in FilterOperators,
       value \in FilterValues :
        /\ lastOp' = "apply_advanced_filter"
        /\ UNCHANGED otherThanExplorer
        /\ dfBefore' = df
        /\ UNCHANGED <<original_df, file_path, temp_files, polarsBool, loaded,
                       plot_area, plot_times>>
        /\ lastCall' = Some([column |-> column # None, value |-> value # <<>>])
        /\ attributes' = attributes
        /\ IF NotDf(df) = "TypeError"
           THEN /\ escaped' = "TypeError"
                /\ UNCHANGED <<df, status, notice>>
           ELSE IF NotDf(df) = "true" \/ column = None
           THEN /\ escaped' = "none"
                /\ UNCHANGED <<df, status, notice>>
           ELSE IF value = <<>>
           THEN /\ escaped' = "none"
                /\ notice' = "Please enter a filter value"
                /\ UNCHANGED <<df, status>>
           ELSE \E out \in FilterOutcomes(The(df), The(column), operator, value) :
                    /\ escaped' = "none"
                    /\ IF out = None
                       THEN /\ notice' = "Filter application failed"
                            /\ UNCHANGED <<df, status>>
                       ELSE /\ df' = out
                            \* update_status, then the preview and selector
                            \* refresh finish or raise into the except clause
                            /\ status' = "filter_applied"
                            /\ \/ UNCHANGED notice
                               \/ notice' = "Filter application failed"


\* reset_filter as it would be if it kept the filtered frame
reset_filter_keeps_df ==
    /\ lastOp' = "reset_filter"
    /\ dfBefore' = df
    /\ escaped' = "none"
    /\ status' = IF original_df # None THEN "filter_reset" ELSE status
    /\ UNCHANGED <<df, original_df, file_path, temp_files, polarsBool, loaded,
                   notice, plot_area, plot_times>>
    /\ lastCall' = None
    /\ attributes' = attributes
    /\ UNCHANGED otherThanExplorer

\* reset_filter(event)
reset_filter ==
    /\ lastOp' = "reset_filter"
    /\ UNCHANGED otherThanExplorer
    /\ dfBefore' = df
    /\ UNCHANGED <<original_df, file_path, temp_files, polarsBool, loaded, notice,
                   plot_area, plot_times>>
    /\ lastCall' = None
    /\ attributes' = attributes
    /\ IF original_df # None
       THEN /\ df' = original_df
            /\ status' = "filter_reset"
            \* update_data_preview() starts with `not self.df`, outside any try
            /\ escaped' = IF NotDf(original_df) = "TypeError" THEN "TypeError"
                          ELSE "none"
       ELSE /\ escaped' = "none"
            /\ UNCHANGED <<df, status>>

\* how many plots the user asks for after the loads
MaxPlots == 1

\* options of the X and Y axis selects: nothing selected, or a column
PlotColumns == {None, Some("n")}

\* options of the 'Plot Type' select (main.py:221)
PlotTypes ==
    {"histogram", "scatter", "box", "line", "bar", "violin", "heatmap",
     "3d_scatter", "surface"}

\* the plot types whose branch tests `not y_col`
TwoAxisTypes == {"scatter", "line", "heatmap", "3d_scatter", "surface"}

\* the message of the `not y_col` branch of a plot type
NeedsBothMessage(type) ==
    CASE type = "scatter" -> "Scatter plot requires both X and Y columns"
      [] type = "line" -> "Line plot requires both X and Y columns"
      [] type = "heatmap" -> "Heatmap requires both X and Y columns"
      [] type = "3d_scatter" -> "3D scatter plot requires both X and Y columns"
      [] type = "surface" -> "Surface plot requires both X and Y columns"

\* create_plot(event)
create_plot ==
    \E x_col \in PlotColumns, y_col \in PlotColumns, type \in PlotTypes :
        /\ plot_times < MaxLoads + MaxPlots
        /\ lastOp' = "create_plot"
        /\ UNCHANGED otherThanExplorer
        /\ dfBefore' = df
        /\ UNCHANGED <<df, original_df, file_path, temp_files, polarsBool, loaded>>
        /\ lastCall' = Some([x |-> x_col, y |-> y_col, type |-> type])
        /\ attributes' = attributes
        /\ IF NotDf(df) = "TypeError"
           THEN /\ escaped' = "TypeError"
                /\ UNCHANGED <<status, notice, plot_area, plot_times>>
           ELSE /\ escaped' = "none"
                /\ IF NotDf(df) = "true" \/ x_col = None
                   THEN /\ notice' = "Please select at least an X-axis column"
                        /\ UNCHANGED <<status, plot_area, plot_times>>
                   ELSE IF type \in TwoAxisTypes /\ y_col = None
                   THEN /\ notice' = NeedsBothMessage(type)
                        /\ UNCHANGED <<status, plot_area, plot_times>>
                   ELSE \* the figure is built, or building it raises
                        \/ /\ plot_area' = type
                           /\ plot_times' = plot_times + 1
                           /\ status' = "plot_created"
                           /\ UNCHANGED notice
                        \/ /\ notice' = "Plot creation failed"
                           /\ UNCHANGED <<status, plot_area, plot_times>>

ExplorerNext ==
    \/ load_file
    \/ apply_advanced_filter
    \/ reset_filter

PlotNext ==
    \/ load_file
    \/ create_plot

InitExplorer ==
    ExplorerInit /\ DashIdle /\ ConfigIdle /\ InferIdle /\ V6Idle /\ ScriptsIdle
        /\ BuildIdle /\ GitIdle

SpecExplorer == InitExplorer /\ [][ExplorerNext]_vars

SpecPlot == InitExplorer /\ [][PlotNext]_vars

\* C1: once a file has been loaded, reset_filter leaves self.df equal to the
\* table as it was loaded, whatever filters ran (or failed) before it.
ResetRestoresLoadedTable ==
    (lastOp = "reset_filter" /\ loaded # None) => df = loaded

\* a reset that undid an applied filter
ResetAfterFilterReached ==
    /\ lastOp = "reset_filter"
    /\ loaded # None
    /\ dfBefore # df
    /\ df = loaded
    /\ Len(The(df)) > Len(The(dfBefore))

-----------------------------------------------------------------------------
(* build_dashboard.py *)

\* Bounds of the dashboard model
MaxArrayLen == 2
MaxCols == 2

\* A numpy array is [dtype, values].  An element of an integer or bool dtype
\* is its itemsize bytes, little-endian two's complement, as numpy stores it
\* (a 64-bit value does not fit a TLC integer).  An element of a float dtype
\* is None for NaN or Some(n) for the whole number n, |n| < 2048, which
\* float16, float32 and float64 all hold exactly.

SignedDtypes == {"int8", "int16", "int32", "int64"}

UnsignedDtypes == {"uint8", "uint16", "uint32", "uint64"}

FloatDtypes == {"float16", "float32", "float64"}

ItemSize(dtype) ==
    CASE dtype \in {"int8", "uint8", "bool"} -> 1
      [] dtype \in {"int16", "uint16", "float16"} -> 2
      [] dtype \in {"int32", "uint32", "float32"} -> 4
      [] dtype \in {"int64", "uint64", "float64"} -> 8

RECURSIVE LE(_, _)
\* the w little-endian bytes of n >= 0
LE(n, w) == IF w = 0 THEN <<>> ELSE <<n % 256>> \o LE(n \div 256, w - 1)

Fill(b, w) == [i \in 1..w |-> b]

RECURSIVE StripZeros(_)
\* drop the high-order zero bytes
StripZeros(bytes) ==
    IF Len(bytes) > 0 /\ bytes[Len(bytes)] = 0
    THEN StripZeros(SubSeq(bytes, 1, Len(bytes) - 1))
    ELSE bytes

RECURSIVE AddOne(_)
AddOne(bytes) ==
    IF Len(bytes) = 0 THEN <<>>
    ELSE IF bytes[1] < 255 THEN <<bytes[1] + 1>> \o Tail(bytes)
    ELSE <<0>> \o AddOne(Tail(bytes))

\* two's complement negation
Negate(bytes) == AddOne([i \in 1..Len(bytes) |-> 255 - bytes[i]])

\* The integer an element denotes, as sign and magnitude
Denotes(bytes, signed) ==
    IF signed /\ bytes[Len(bytes)] >= 128
    THEN [neg |-> TRUE, mag |-> StripZeros(Negate(bytes))]
    ELSE [neg |-> FALSE, mag |-> StripZeros(bytes)]

RECURSIVE IntOfLE(_)
\* the value of a few unsigned little-endian bytes
IntOfLE(bytes) ==
    IF Len(bytes) = 0 THEN 0 ELSE bytes[1] + 256 * IntOfLE(Tail(bytes))

\* the value of a small signed or unsigned element
SmallInt(bytes, signed) ==
    LET d == Denotes(bytes, signed)
    IN  IF d.neg THEN 0 - IntOfLE(d.mag) ELSE IntOfLE(d.mag)

\* bit patterns used as elements of a w-byte integer dtype
IntSamples(w) ==
    {LE(0, w), LE(1, w), LE(200, w), Fill(255, w),
     [i \in 1..w |-> IF i = w THEN 128 ELSE 0]}
    \cup (IF w = 8
          THEN {<<0, 0, 0, 0, 1, 0, 0, 0>>, <<5, 0, 0, 0, 1, 0, 0, 0>>}
          ELSE {})

FloatSamples == {None, Some(0), Some(1), Some(0 - 2), Some(3)}

ElementSamples(dtype) ==
    IF dtype \in FloatDtypes THEN FloatSamples
    ELSE IF dtype = "bool" THEN {<<0>>, <<1>>}
    ELSE IntSamples(ItemSize(dtype))

NumpyDtypes == SignedDtypes \cup UnsignedDtypes \cup FloatDtypes \cup {"bool"}

NumpyArrays ==
    UNION {{[dtype |-> dt, values |-> v] :
                v \in SeqsUpTo(ElementSamples(dt), MaxArrayLen)} :
           dt \in NumpyDtypes}

\* ndarray.astype between integer dtypes: C conversion, which keeps the low
\* bytes and sign- or zero-extends
CastInt(bytes, signed, w) ==
    IF w <= Len(bytes) THEN SubSeq(bytes, 1, w)
    ELSE bytes \o Fill(IF signed /\ bytes[Len(bytes)] >= 128 THEN 255 ELSE 0,
                       w - Len(bytes))

\* ndarray.astype(target)
astype(arr, target) ==
    IF arr.dtype \in FloatDtypes
    THEN [dtype |-> target, values |-> arr.values]
    ELSE [dtype |-> target,
          values |-> [i \in 1..Len(arr.values) |->
                        CastInt(arr.values[i], arr.dtype \in SignedDtypes,
                                ItemSize(target))]]

RECURSIVE Log2(_)
\* floor(log2 n), n >= 1
Log2(n) == IF n < 2 THEN 0 ELSE 1 + Log2(n \div 2)

RECURSIVE Pow2(_)
Pow2(k) == IF k = 0 THEN 1 ELSE 2 * Pow2(k - 1)

Abs(n) == IF n < 0 THEN 0 - n ELSE n

\* IEEE 754 binary32 of a float element, little-endian
Float32Bytes(v) ==
    IF v = None THEN <<0, 0, 192, 127>>
    ELSE IF The(v) = 0 THEN <<0, 0, 0, 0>>
    ELSE LET n == Abs(The(v))
             e == Log2(n)
             E == e + 127
             mant == (n - Pow2(e)) * Pow2(23 - e)
             sign == IF The(v) < 0 THEN 128 ELSE 0
         IN  <<mant % 256, (mant \div 256) % 256,
               (E % 2) * 128 + mant \div 65536, sign + E \div 2>>

\* IEEE 754 binary16 of a float element, little-endian
Float16Bytes(v) ==
    IF v = None THEN <<0, 126>>
    ELSE IF The(v) = 0 THEN <<0, 0>>
    ELSE LET n == Abs(The(v))
             e == Log2(n)
             E == e + 15
             mant == (n - Pow2(e)) * Pow2(10 - e)
             sign == IF The(v) < 0 THEN 128 ELSE 0
         IN  <<mant % 256, sign + E * 4 + mant \div 256>>

ElementBytes(dtype, v) ==
    CASE dtype = "float16" -> Float16Bytes(v)
      [] dtype = "float32" -> Float32Bytes(v)
      [] OTHER -> v

RECURSIVE Flatten(_)
Flatten(ss) == IF Len(ss) = 0 THEN <<>> ELSE Head(ss) \o Flatten(Tail(ss))

\* ndarray.tobytes()
tobytes(arr) ==
    Flatten([i \in 1..Len(arr.values) |-> ElementBytes(arr.dtype, arr.values[i])])

\* Base64 text is the tuple of its characters' places in the alphabet
\* A-Za-z0-9+/ (0..63), with 64 for the pad '='.
Pad == 64

RECURSIVE b64encode(_)
\* base64.b64encode
b64encode(b) ==
    IF Len(b) = 0 THEN <<>>
    ELSE IF Len(b) = 1
    THEN <<b[1] \div 4, (b[1] % 4) * 16, Pad, Pad>>
    ELSE IF Len(b) = 2
    THEN <<b[1] \div 4, (b[1] % 4) * 16 + b[2] \div 16, (b[2] % 16) * 4, Pad>>
    ELSE <<b[1] \div 4, (b[1] % 4) * 16 + b[2] \div 16,
           (b[2] % 16) * 4 + b[3] \div 64, b[3] % 64>>
         \o b64encode(SubSeq(b, 4, Len(b)))

RECURSIVE atob(_)
\* the page's atob(data) followed by charCodeAt: the bytes of the text
atob(t) ==
    IF Len(t) < 4 THEN <<>>
    ELSE <<t[1] * 4 + t[2] \div 16>>
         \o (IF t[3] = Pad THEN <<>> ELSE <<(t[2] % 16) * 16 + t[3] \div 4>>)
         \o (IF t[3] = Pad \/ t[4] = Pad THEN <<>>
             ELSE <<(t[3] % 4) * 64 + t[4]>>)
         \o atob(SubSeq(t, 5, Len(t)))

PayloadDtypes == {"float32", "uint32", "uint16", "uint8"}

\* encode_typed_array(arr) for a numpy array
encode_typed_array(arr) ==
    LET conv ==
            CASE arr.dtype = "float64" -> astype(arr, "float32")
              [] arr.dtype = "int64" -> astype(arr, "uint32")
              [] arr.dtype = "int32" -> astype(arr, "uint32")
              [] arr.dtype = "int16" -> astype(arr, "uint16")
              [] arr.dtype = "int8" -> astype(arr, "uint8")
              [] OTHER -> arr
        \* dtype_map.get(arr.dtype.type, 'float32')
        dtype == IF conv.dtype \in PayloadDtypes THEN conv.dtype ELSE "float32"
    IN  [dtype |-> dtype,
         shape |-> <<Len(conv.values)>>,
         data |-> b64encode(tobytes(conv))]

\* decodeTypedArray(encoded): None when the typed-array constructor throws
\* RangeError (the byte length is no multiple of the element size), else the
\* elements' bytes
decodeTypedArray(encoded) ==
    LET bytes == atob(encoded.data)
        w == ItemSize(encoded.dtype)
    IN  IF encoded.dtype \notin PayloadDtypes THEN None
        ELSE IF Len(bytes) % w # 0 THEN None
        ELSE Some([i \in 1..(Len(bytes) \div w) |->
                     SubSeq(bytes, (i - 1) * w + 1, i * w)])

\* An Arrow column is [name, type, values]; a cell is None (null) or
\* Some(x): x the bytes of an integer or bool, the whole number of a float,
\* the nanoseconds of a timestamp, or the text of a string.
NsPerSecond == 1000000000

Txt(a) == <<a>>

ArrowColumns ==
    {[name |-> "age", type |-> "int64",
      values |-> <<Some(LE(30, 8)), Some(<<5, 0, 0, 0, 1, 0, 0, 0>>)>>],
     [name |-> "delta", type |-> "int8",
      values |-> <<Some(Fill(255, 1)), Some(LE(3, 1))>>],
     [name |-> "gap", type |-> "int16",
      values |-> <<Some(LE(7, 2)), None>>],
     [name |-> "count", type |-> "uint16",
      values |-> <<Some(LE(300, 2)), Some(LE(2, 2))>>],
     [name |-> "id", type |-> "uint64",
      values |-> <<Some(LE(1, 8)), Some(LE(2, 8))>>],
     [name |-> "score", type |-> "float64",
      values |-> <<Some(3), None>>],
     [name |-> "ratio", type |-> "float16",
      values |-> <<Some(1), Some(0 - 2)>>],
     [name |-> "flag", type |-> "bool",
      values |-> <<Some(<<1>>), Some(<<0>>)>>],
     [name |-> "maybe", type |-> "bool",
      values |-> <<Some(<<1>>), None>>],
     [name |-> "when", type |-> "timestamp",
      values |-> <<Some(0), Some(2 * NsPerSecond)>>],
     [name |-> "city", type |-> "string",
      values |-> <<Some(Txt("a")), Some(Txt("b"))>>],
     [name |-> "tags", type |-> "list",
      values |-> <<Some(Txt("a")), Some(Txt("a"))>>]}

\* An Arrow table is the set of its columns
ArrowTables ==
    {ArrowColumns, {c \in ArrowColumns : c.name \in {"age", "city", "id"}}}

column_names(table) == {c.name : c \in table}

RequestNames == column_names(ArrowColumns) \cup {"missing"}

IntegerTypes == SignedDtypes \cup UnsignedDtypes

HasNull(col) == \E i \in 1..Len(col.values) : col.values[i] = None

RECURSIVE unique(_)
\* pc.unique(column): the distinct values in order of first appearance
unique(vs) ==
    IF Len(vs) = 0 THEN <<>>
    ELSE LET rest == unique(SubSeq(vs, 1, Len(vs) - 1))
             last == vs[Len(vs)]
         IN  IF last \in Range(rest) THEN rest ELSE Append(rest, last)

\* value_map[v]: the place of v among the unique values, from 0
CodeOf(uniq, v) == (CHOOSE i \in 1..Len(uniq) : uniq[i] = v) - 1

\* Lines 91-111: the array a column becomes.  kind is "array", "skip" (the
\* except clause: continue) or "raise" (an exception leaves the function).
ColumnArray(column) ==
    LET n == Len(column.values)
        vals == column.values
        \* ChunkedArray.to_numpy(): nulls turn a number column into float64
        \* with NaN
        asFloat(signed) ==
            [dtype |-> "float64",
             values |-> [i \in 1..n |->
                           IF vals[i] = None THEN None
                           ELSE Some(SmallInt(The(vals[i]), signed))]]
        plain == [dtype |-> column.type,
                  values |-> [i \in 1..n |-> The(vals[i])]]
    IN  IF column.type \in IntegerTypes
        THEN [kind |-> "array",
              arr |-> IF HasNull(column)
                      THEN asFloat(column.type \in SignedDtypes)
                      ELSE plain]
        ELSE IF column.type \in FloatDtypes
        THEN [kind |-> "array",
              arr |-> [dtype |-> column.type, values |-> vals]]
        ELSE IF column.type = "bool"
        THEN \* with a null, to_numpy() gives an object array and
             \* astype(np.uint8) raises TypeError on None
             IF HasNull(column) THEN [kind |-> "raise"]
             ELSE [kind |-> "array", arr |-> astype(plain, "uint8")]
        ELSE IF column.type = "timestamp"
        THEN [kind |-> "array",
              arr |-> [dtype |-> "float32",
                       values |-> [i \in 1..n |->
                                     IF vals[i] = None THEN None
                                     ELSE Some(The(vals[i]) \div NsPerSecond)]]]
        ELSE IF column.type = "list"
        THEN \* pc.unique is not implemented for the type
             [kind |-> "skip"]
        ELSE LET uniq == unique(vals)
             IN  [kind |-> "array",
                  arr |-> [dtype |-> "uint16",
                           values |-> [i \in 1..n |->
                                         LE(CodeOf(uniq, vals[i]), 2)]]]

ColumnNamed(table, name) == CHOOSE c \in table : c.name = name

RECURSIVE ExtractColumns(_, _, _)
\* Lines 88-114, for the columns still to do: acc is [kind, data, fed], data
\* the dict built so far, fed the arrays handed to encode_typed_array with
\* the payload each got
ExtractColumns(table, columns, acc) ==
    IF Len(columns) = 0 \/ acc.kind = "raised" THEN acc
    ELSE LET col == Head(columns)
             ca == ColumnArray(ColumnNamed(table, col))
             next ==
                 IF ca.kind = "raise"
                 THEN [acc EXCEPT !.kind = "raised"]
                 ELSE IF ca.kind = "skip" THEN acc
                 ELSE LET payload == encode_typed_array(ca.arr)
                      IN  [acc EXCEPT
                             !.data = [k \in DOMAIN acc.data \cup {col} |->
                                         IF k = col THEN payload
                                         ELSE acc.data[k]],
                             !.fed = Append(acc.fed,
                                            [arr |-> ca.arr,
                                             payload |-> payload])]
         IN  ExtractColumns(table, Tail(columns), next)


RECURSIVE PresentPrefix(_, _)
\* the requested columns up to the first one the table lacks
PresentPrefix(table, columns) ==
    IF Len(columns) = 0 \/ Head(columns) \notin column_names(table) THEN <<>>
    ELSE <<Head(columns)>> \o PresentPrefix(table, Tail(columns))

\* process_arrow_file as it would be if it looked a column up only when it
\* came to extract it
process_arrow_file_lazy(readable, table, columns) ==
    IF ~readable THEN [kind |-> "raised", data |-> <<>>, fed |-> <<>>]
    ELSE LET done == ExtractColumns(table, PresentPrefix(table, columns),
                                    [kind |-> "dict", data |-> <<>>,
                                     fed |-> <<>>])
         IN  IF done.kind = "dict"
                /\ Len(PresentPrefix(table, columns)) < Len(columns)
             THEN [done EXCEPT !.kind = "None"]
             ELSE done

\* process_arrow_file(arrow_file, columns): kind is "raised" (the file
\* cannot be read, or a column cannot be converted), "None" or "dict"
process_arrow_file(readable, table, columns) ==
    IF ~readable THEN [kind |-> "raised", data |-> <<>>, fed |-> <<>>]
    ELSE IF \E i \in 1..Len(columns) : columns[i] \notin column_names(table)
    THEN [kind |-> "None", data |-> <<>>, fed |-> <<>>]
    ELSE ExtractColumns(table, columns,
                        [kind |-> "dict", data |-> <<>>, fed |-> <<>>])

\* what can happen around the file: it cannot be opened; the CDN download
\* fails; the output cannot be written; all goes well
Worlds == {"unreadable", "offline", "readonly", "fine"}

CommandLines ==
    {[table |-> t, columns |-> cs, world |-> w] :
        t \in ArrowTables,
        cs \in SeqsUpTo(RequestNames, MaxCols) \ {<<>>},
        w \in Worlds}

DashInit ==
    /\ dashInput \in {[call |-> "encode_typed_array", arr |-> a] :
                         a \in NumpyArrays}
                     \cup {[call |-> "main", args |-> a] : a \in CommandLines}
    /\ encOut = None
    /\ mainRun = None

\* a call encode_typed_array(arr)
encode_typed_array_call ==
    /\ dashInput.call = "encode_typed_array"
    /\ encOut = None
    /\ encOut' = Some(encode_typed_array(dashInput.arr))
    /\ UNCHANGED <<dashInput, mainRun>>
    /\ UNCHANGED otherThanDash

\* main(): rc is None when an exception ends the program
main ==
    /\ dashInput.call = "main"
    /\ mainRun = None
    /\ LET args == dashInput.args
           data == process_arrow_file(args.world # "unreadable", args.table,
                                      args.columns)
           base == [result |-> data.kind, data |-> data.data, fed |-> data.fed,
                    downloads |-> FALSE, written |-> FALSE, rc |-> None]
       IN  mainRun' =
             Some(IF data.kind = "raised" THEN base
                  ELSE IF data.kind = "None" THEN [base EXCEPT !.rc = Some(1)]
                  ELSE IF args.world = "offline"
                  THEN [base EXCEPT !.downloads = TRUE]
                  ELSE IF args.world = "readonly"
                  THEN [base EXCEPT !.downloads = TRUE]
                  ELSE [base EXCEPT !.downloads = TRUE, !.written = TRUE,
                                    !.rc = Some(0)])
    /\ UNCHANGED <<dashInput, encOut>>
    /\ UNCHANGED otherThanDash

DashNext ==
    \/ encode_typed_array_call
    \/ main

ExplorerIdle ==
    /\ df = None
    /\ original_df = None
    /\ file_path = None
    /\ temp_files = <<>>
    /\ status = "welcome"
    /\ notice = "none"
    /\ escaped = "none"
    /\ polarsBool = "raises"
    /\ loaded = None
    /\ dfBefore = None
    /\ lastOp = "init"
    /\ plot_area = "empty"
    /\ plot_times = 0
    /\ lastCall = None
    /\ attributes = InstanceAttributes

InitDashboard ==
    DashInit /\ ExplorerIdle /\ ConfigIdle /\ InferIdle /\ V6Idle /\ ScriptsIdle
        /\ BuildIdle /\ GitIdle

SpecDashboard == InitDashboard /\ [][DashNext]_vars

\* C2: for an input array of a signed integer dtype, every element of the
\* payload, read back by decodeTypedArray with the dtype the payload names,
\* denotes the same integer as the input element.
EncodedIntegersDenoteInputs ==
    (dashInput.call = "encode_typed_array" /\ encOut # None
        /\ dashInput.arr.dtype \in SignedDtypes) =>
        LET arr == dashInput.arr
            payload == The(encOut)
            back == decodeTypedArray(payload)
        IN  /\ payload.dtype \in {"uint32", "uint16", "uint8"}
            /\ back # None
            /\ Len(The(back)) = Len(arr.values)
            /\ \A i \in 1..Len(arr.values) :
                   Denotes(The(back)[i], FALSE) = Denotes(arr.values[i], TRUE)

\* C3: every array process_arrow_file hands to encode_typed_array gets a
\* payload whose dtype is one of the four page dtypes and whose bytes are
\* exactly one element of that dtype per row, so decodeTypedArray yields one
\* element per row.
FedArraysDecodeRowForRow ==
    (dashInput.call = "main" /\ mainRun # None) =>
        \A i \in 1..Len(The(mainRun).fed) :
            LET f == The(mainRun).fed[i]
                back == decodeTypedArray(f.payload)
            IN  /\ f.payload.dtype \in PayloadDtypes
                /\ Len(atob(f.payload.data))
                       = Len(f.arr.values) * ItemSize(f.payload.dtype)
                /\ back # None
                /\ Len(The(back)) = Len(f.arr.values)

\* some requested column is no column of the table
RequestsMissingColumn(args) ==
    \E i \in 1..Len(args.columns) :
        args.columns[i] \notin column_names(args.table)

\* C4: when the file is read and a requested column is not in its schema,
\* process_arrow_file returns None having encoded nothing, and main returns 1
\* without downloading or writing; whatever is emitted is a requested column
\* of the table.
MissingColumnStopsBuild ==
    (dashInput.call = "main" /\ mainRun # None) =>
        LET args == dashInput.args
            run == The(mainRun)
        IN  /\ (args.world # "unreadable" /\ RequestsMissingColumn(args)) =>
                   /\ run.result = "None"
                   /\ run.fed = <<>>
                   /\ run.data = <<>>
                   /\ run.rc = Some(1)
                   /\ ~run.downloads
                   /\ ~run.written
            /\ DOMAIN run.data \subseteq
                   column_names(args.table) \cap Range(args.columns)

\* main ran on a request whose first column exists and whose second does not
MissingAfterPresentReached ==
    /\ dashInput.call = "main"
    /\ mainRun # None
    /\ dashInput.args.world = "fine"
    /\ Len(dashInput.args.columns) = 2
    /\ dashInput.args.columns[1] = "age"
    /\ dashInput.args.columns[2] = "missing"
    /\ The(mainRun).rc = Some(1)

-----------------------------------------------------------------------------
(* data_loader.py: DataExplorerConfig *)

\* Bounds of the config model
MaxCharts == 7

\* Program constants
CategoricalLimit == 20
ChartLimit == 6
TimeSampleSize == 100
MetricColumns == 2

\* A cell is [t, v]: t the Python type of the value ("int", "float", "bool",
\* "str", "datetime", and "none" / "nan" for the two nulls) and v its text.
\* A pandas DataFrame is the tuple of its columns [name, dtype, values]; a
\* record (a row of config["data"]) is the tuple of its [k, v] items, a
\* Python dict in insertion order.
NoneCell == [t |-> "none", v |-> <<>>]

NanCell == [t |-> "nan", v |-> <<>>]

isna(c) == c.t \in {"none", "nan"}

DigitChars == {"0", "1", "2", "3", "4", "5", "6", "7", "8", "9"}

DigitText == <<"0", "1", "2", "3", "4", "5", "6", "7", "8", "9">>

\* the two decimal digits of n < 100
TwoDigits(n) == <<DigitText[(n \div 10) + 1], DigitText[(n % 10) + 1]>>

RECURSIVE Decimal(_)
\* str(n), n >= 0
Decimal(n) ==
    IF n < 10 THEN <<DigitText[n + 1]>>
    ELSE Decimal(n \div 10) \o <<DigitText[(n % 10) + 1]>>

Str(text) == [t |-> "str", v |-> text]

\* Items of an ordered dict
Keys(d) == [i \in 1..Len(d) |-> d[i].k]

HasKey(d, k) == \E i \in 1..Len(d) : d[i].k = k

Get(d, k, default) ==
    IF HasKey(d, k) THEN d[CHOOSE i \in 1..Len(d) : d[i].k = k].v ELSE default

\* DataFrame.dropna on one column, then head(n)
dropna(values) == SelectSeq(values, LAMBDA c : ~isna(c))

head(values, n) == SubSeq(values, 1, Min2(Len(values), n))

\* Series.nunique(): distinct non-null values
nunique(values) == Cardinality(Range(dropna(values)))

\* pd.api.types.is_numeric_dtype / is_integer_dtype /
\* is_datetime64_any_dtype / is_string_dtype of a column's dtype
is_numeric_dtype(dtype) == dtype \in {"int64", "float64", "bool"}

is_integer_dtype(dtype) == dtype = "int64"

is_datetime64_any_dtype(dtype) == dtype = "datetime64"

is_string_dtype(dtype) == dtype = "object"

AllDigits(text) == \A i \in 1..Len(text) : text[i] \in DigitChars

\* text is "." and one or more digits
IsFraction(text) ==
    Len(text) >= 2 /\ text[1] = "." /\ AllDigits(Tail(text))

\* text is ":" and two digits
IsSeconds(text) ==
    Len(text) = 3 /\ text[1] = ":" /\ AllDigits(Tail(text))

\* re `$`: the end of the text, or just before a final newline
AtEnd(text) == text = <<>> \/ text = <<"\n">>

\* text begins with \d{1,2}:\d{2}; the rests after each way to match it
AfterHourMinute(text) ==
    {SubSeq(text, k + 4, Len(text)) :
        k \in {k \in {1, 2} :
                 /\ Len(text) >= k + 3
                 /\ AllDigits(SubSeq(text, 1, k))
                 /\ text[k + 1] = ":"
                 /\ AllDigits(SubSeq(text, k + 2, k + 3))}}

\* the rests after the optional group (:\d{2})
AfterSeconds(rest) ==
    {rest} \cup (IF Len(rest) >= 3 /\ IsSeconds(SubSeq(rest, 1, 3))
                 THEN {SubSeq(rest, 4, Len(rest))} ELSE {})

\* the rests after the optional group (\.\d+)
AfterFraction(rest) ==
    {rest} \cup {SubSeq(rest, n + 1, Len(rest)) :
                    n \in {n \in 1..Len(rest) : IsFraction(SubSeq(rest, 1, n))}}

\* str.match(r'^\d{1,2}:\d{2}(:\d{2})?(\.\d+)?$')
MatchTimeFraction(text) ==
    \E r1 \in AfterHourMinute(text) :
        \E r2 \in AfterSeconds(r1) :
            \E r3 \in AfterFraction(r2) : AtEnd(r3)

\* str.match(r'^\d{1,2}:\d{2}$')
MatchHourMinute(text) == \E r1 \in AfterHourMinute(text) : AtEnd(r1)

\* str.match(r'^\d{1,2}:\d{2}:\d{2}$')
MatchHourMinuteSecond(text) ==
    \E r1 \in AfterHourMinute(text) :
        /\ Len(r1) >= 3
        /\ IsSeconds(SubSeq(r1, 1, 3))
        /\ AtEnd(SubSeq(r1, 4, Len(r1)))

\* _is_time_column without the pattern that admits a fractional part
_is_time_column_strict(values) ==
    IF Len(values) = 0 THEN FALSE
    ELSE LET sample == head(dropna(values), TimeSampleSize)
         IN  IF Len(sample) = 0 THEN FALSE
             ELSE \/ \A i \in 1..Len(sample) : MatchHourMinute(sample[i].v)
                  \/ \A i \in 1..Len(sample) : MatchHourMinuteSecond(sample[i].v)

\* _is_time_column(series)
_is_time_column(values) ==
    IF Len(values) = 0 THEN FALSE
    ELSE LET sample == head(dropna(values), TimeSampleSize)
         IN  IF Len(sample) = 0 THEN FALSE
             ELSE \/ \A i \in 1..Len(sample) : MatchTimeFraction(sample[i].v)
                  \/ \A i \in 1..Len(sample) : MatchHourMinute(sample[i].v)
                  \/ \A i \in 1..Len(sample) : MatchHourMinuteSecond(sample[i].v)

\* the type _infer_column_types gives one column
InferredType(col) ==
    IF is_numeric_dtype(col.dtype)
    THEN IF is_integer_dtype(col.dtype) THEN "integer" ELSE "number"
    ELSE IF is_datetime64_any_dtype(col.dtype) THEN "time"
    ELSE IF is_string_dtype(col.dtype)
    THEN IF _is_time_column(col.values) THEN "time" ELSE "string"
    ELSE "string"

\* _infer_column_types(df): a dict, column name to type
_infer_column_types(frame) ==
    [i \in 1..Len(frame) |-> [k |-> frame[i].name, v |-> InferredType(frame[i])]]

Title(col) == <<col, " Distribution">>

\* the loop body of _generate_chart_configs with the categorical test
\* made strict
ChartsFor_below_limit(columnTypes, col) ==
    LET col_type == Get(columnTypes, col.name, "string")
    IN  IF col_type \in {"number", "integer"}
        THEN <<[type |-> "histogram", column |-> col.name,
                title |-> <<col.name, " Distribution">>]>>
        ELSE IF col_type = "time"
        THEN <<[type |-> "time", column |-> col.name,
                title |-> <<col.name, " Distribution">>]>>
        ELSE IF col_type = "string" /\ nunique(col.values) < CategoricalLimit
        THEN <<[type |-> "categorical", column |-> col.name,
                title |-> <<col.name, " Distribution">>]>>
        ELSE <<>>

\* the chart _generate_chart_configs appends for one column, if any
ChartsFor(columnTypes, col) ==
    LET col_type == Get(columnTypes, col.name, "string")
    IN  IF col_type \in {"number", "integer"}
        THEN <<[type |-> "histogram", column |-> col.name,
                title |-> Title(col.name)]>>
        ELSE IF col_type = "time"
        THEN <<[type |-> "time", column |-> col.name,
                title |-> Title(col.name)]>>
        ELSE IF col_type = "string" /\ nunique(col.values) <= CategoricalLimit
        THEN <<[type |-> "categorical", column |-> col.name,
                title |-> Title(col.name)]>>
        ELSE <<>>

\* _generate_chart_configs without the final slice
_generate_chart_configs_uncapped(columnTypes, frame) ==
    Flatten([i \in 1..Len(frame) |-> ChartsFor(columnTypes, frame[i])])

\* _generate_chart_configs(df), reading self.config["columnTypes"]
_generate_chart_configs(columnTypes, frame) ==
    head(Flatten([i \in 1..Len(frame) |-> ChartsFor(columnTypes, frame[i])]),
         ChartLimit)

\* _generate_mini_metrics(df), reading self.config["columnTypes"]
_generate_mini_metrics(columnTypes) ==
    LET numerical_cols ==
            SelectSeq(columnTypes, LAMBDA it : it.v \in {"number", "integer"})
        picked == head(numerical_cols, MetricColumns)
    IN  <<[id |-> <<"filtered">>, label |-> <<"Filtered Rows">>],
          [id |-> <<"percent">>, label |-> <<"of Total">>]>>
        \o [i \in 1..Len(picked) |->
              [id |-> <<"avg_", picked[i].k>>, label |-> <<"Avg ", picked[i].k>>]]

\* df.to_dict('records')
to_dict_records(frame) ==
    IF Len(frame) = 0 THEN <<>>
    ELSE [r \in 1..Len(frame[1].values) |->
            [i \in 1..Len(frame) |-> [k |-> frame[i].name, v |-> frame[i].values[r]]]]

RECURSIVE KeysInOrder(_)
\* the keys of the records in order of first appearance
KeysInOrder(records) ==
    IF Len(records) = 0 THEN <<>>
    ELSE LET before == KeysInOrder(SubSeq(records, 1, Len(records) - 1))
             last == Keys(records[Len(records)])
         IN  before \o SelectSeq(last, LAMBDA k : k \notin Range(before))

\* the dtype pandas infers for a column built from Python values
InferDtype(values) ==
    LET kinds == {values[i].t : i \in 1..Len(values)}
    IN  IF kinds = {} THEN "object"
        ELSE IF kinds = {"int"} THEN "int64"
        ELSE IF kinds = {"bool"} THEN "bool"
        ELSE IF kinds = {"datetime"} THEN "datetime64"
        ELSE IF kinds = {"none"} THEN "object"
        ELSE IF kinds \subseteq {"int", "float", "nan", "none"} THEN "float64"
        ELSE "object"

\* pd.DataFrame(records): a key a record lacks is NaN there
DataFrame(records) ==
    LET keys == KeysInOrder(records)
        column(k) == [r \in 1..Len(records) |-> Get(records[r], k, NanCell)]
    IN  [i \in 1..Len(keys) |->
            [name |-> keys[i], dtype |-> InferDtype(column(keys[i])),
             values |-> column(keys[i])]]

\* DataExplorerConfig.__init__
NewConfig ==
    [title |-> <<"Generic Data Explorer">>, columns |-> <<>>, data |-> <<>>,
     columnTypes |-> <<>>, chartTypes |-> <<>>, miniMetrics |-> <<>>]

\* load_dataframe(df)
load_dataframe(cfg, frame) ==
    LET types == _infer_column_types(frame)
    IN  [cfg EXCEPT !.data = to_dict_records(frame),
                    !.columns = [i \in 1..Len(frame) |-> frame[i].name],
                    !.columnTypes = types,
                    !.chartTypes = _generate_chart_configs(types, frame),
                    !.miniMetrics = _generate_mini_metrics(types)]

\* load_csv that resets the config when the read fails
load_csv_resets(cfg, file) ==
    IF file = None THEN [raised |-> TRUE, config |-> NewConfig]
    ELSE [raised |-> FALSE, config |-> load_dataframe(cfg, The(file))]

\* load_csv(file_path): [raised, config]; a file is None when pd.read_csv
\* raises on it, else Some(the frame read)
load_csv(cfg, file) ==
    IF file = None THEN [raised |-> TRUE, config |-> cfg]
    ELSE [raised |-> FALSE, config |-> load_dataframe(cfg, The(file))]

\* dict.update for the keys of self.config a JSON object may carry
Update(cfg, doc) ==
    [title |-> Get(doc, "title", cfg.title),
     columns |-> Get(doc, "columns", cfg.columns),
     data |-> Get(doc, "data", cfg.data),
     columnTypes |-> Get(doc, "columnTypes", cfg.columnTypes),
     chartTypes |-> Get(doc, "chartTypes", cfg.chartTypes),
     miniMetrics |-> Get(doc, "miniMetrics", cfg.miniMetrics)]

\* load_json(file_path): [raised, config]; a JSON text is None when it cannot
\* be opened or parsed, else [kind |-> "list", list |-> records] or
\* [kind |-> "dict", dict |-> items]
load_json(cfg, json) ==
    IF json = None THEN [raised |-> TRUE, config |-> cfg]
    ELSE LET doc == The(json)
             c1 == IF doc.kind = "list"
                   THEN IF Len(doc.list) > 0
                        THEN [cfg EXCEPT !.data = doc.list,
                                         !.columns = Keys(doc.list[1])]
                        ELSE [cfg EXCEPT !.data = doc.list]
                   ELSE IF HasKey(doc.dict, "data")
                   THEN Update(cfg, doc.dict)
                   ELSE [cfg EXCEPT !.data = <<doc.dict>>,
                                    !.columns = Keys(doc.dict)]
             c2 == IF Len(c1.columnTypes) = 0
                   THEN [c1 EXCEPT !.columnTypes =
                                      _infer_column_types(DataFrame(c1.data))]
                   ELSE c1
             c3 == IF Len(c2.chartTypes) = 0
                   THEN [c2 EXCEPT !.chartTypes =
                                      _generate_chart_configs(c2.columnTypes,
                                                              DataFrame(c2.data))]
                   ELSE c2
         IN  [raised |-> FALSE, config |-> c3]

\* add_chart that keeps the list within the grid's ChartLimit
add_chart_capped(cfg, chart_config) ==
    [cfg EXCEPT !.chartTypes = head(Append(cfg.chartTypes, chart_config),
                                    ChartLimit)]

\* add_chart(chart_config)
add_chart(cfg, chart_config) ==
    [cfg EXCEPT !.chartTypes = Append(cfg.chartTypes, chart_config)]

\* set_chart_types(chart_types)
set_chart_types(cfg, chart_types) == [cfg EXCEPT !.chartTypes = chart_types]

\* ---- the tables and documents the calls are given

Col(name, dtype, values) == [name |-> name, dtype |-> dtype, values |-> values]

Ints(n) == [i \in 1..n |-> [t |-> "int", v |-> Decimal(i)]]

Floats(n) == [i \in 1..n |-> [t |-> "float", v |-> Decimal(i) \o <<".", "5">>]]

Bools(n) == [i \in 1..n |-> [t |-> "bool", v |-> <<"T">>]]

Dates(n) == [i \in 1..n |-> [t |-> "datetime", v |-> Decimal(i)]]

\* n texts of which k are distinct
Labels(n, k) == [i \in 1..n |-> Str(<<"k">> \o TwoDigits((i - 1) % k))]

\* times of day: "HH:MM", "H:MM:SS", "HH:MM:SS.f", "HH:MM.f"
Clock(i) == TwoDigits(i % 24) \o <<":", "3", "0">>

Times(n, style) ==
    [i \in 1..n |->
        Str(CASE style = "hm" -> Clock(i)
              [] style = "hms" -> <<"9">> \o <<":">> \o TwoDigits(i % 60)
                                         \o <<":", "0", "5">>
              [] style = "fraction" -> Clock(i) \o <<":", "4", "5", ".", "5">>
              [] style = "hm_fraction" -> Clock(i) \o <<".", "2", "5">>
              [] style = "newline" -> Clock(i) \o <<"\n">>
              [] style = "short" -> TwoDigits(i % 24) \o <<":", "3">>
              [] style = "long" -> <<"1">> \o Clock(i))]

\* times with a null between them
TimesWithNull(n) == [i \in 1..n |-> IF i = 2 THEN NoneCell ELSE Str(Clock(i))]

Nones(n) == [i \in 1..n |-> NoneCell]

\* n times of day and then one word
TimesThenWord(n) == Times(n, "hm") \o <<Str(<<"n", "o", "o", "n">>)>>

WideRows == CategoricalLimit + 1

\* CategoricalLimit + 1 rows: text columns with more distinct values than
\* the limit, with exactly the limit, and the other kinds between them
WideColumns ==
    <<Col("w", "object", Labels(WideRows, WideRows)),
      Col("a", "int64", Ints(WideRows)),
      Col("u", "object", Labels(WideRows, CategoricalLimit)),
      Col("f", "float64", Floats(WideRows)),
      Col("t", "object", Times(WideRows, "hm")),
      Col("w2", "object", Labels(WideRows, WideRows)),
      Col("b", "bool", Bools(WideRows)),
      Col("d", "datetime64", Dates(WideRows)),
      Col("s", "object", Labels(WideRows, 2)),
      Col("c", "category", Labels(WideRows, 3))>>

\* every kind of column, two rows each
VarietyColumns ==
    <<Col("a", "int64", Ints(2)),
      Col("x", "object", Times(2, "short")),
      Col("ts", "object", Times(2, "hms")),
      Col("tf", "object", Times(2, "fraction")),
      Col("y", "object", Times(2, "long")),
      Col("z", "object", Times(2, "hm_fraction")),
      Col("nl", "object", Times(2, "newline")),
      Col("n", "object", Nones(2)),
      Col("tn", "object", TimesWithNull(2)),
      Col("d", "datetime64", Dates(2))>>

Window(columns, start, len) ==
    SubSeq(columns, start, Min2(Len(columns), start + len - 1))

Reverse(seq) == [i \in 1..Len(seq) |-> seq[Len(seq) + 1 - i]]

\* the DataFrames handed to load_dataframe, or read by pd.read_csv
Frames ==
    <<WideColumns,
      Window(WideColumns, 1, 3),
      VarietyColumns,
      Reverse(VarietyColumns),
      Window(VarietyColumns, 3, ChartLimit),
      <<Col("a", "int64", <<>>), Col("e", "object", <<>>)>>,
      <<>>,
      <<Col("tall", "object", TimesThenWord(TimeSampleSize))>>,
      <<Col("tall", "object", <<NoneCell>> \o TimesThenWord(TimeSampleSize - 1))>>>>

ChartA == [type |-> "histogram", column |-> "a", title |-> <<"Age">>]

ChartDept ==
    [type |-> "categorical", column |-> "department", title |-> <<"Department">>]

\* the charts handed to add_chart
CustomCharts == {ChartA, ChartDept}

\* the lists handed to set_chart_types
ChartLists == {<<>>, <<ChartDept, ChartA>>}

Item(k, v) == [k |-> k, v |-> v]

IntCell(n) == [t |-> "int", v |-> Decimal(n)]

\* the JSON texts handed to load_json
JsonDocs ==
    <<\* [{"x": 1, "label": "k00"}, {"x": 2, "label": "k01"}]
      [kind |-> "list",
       list |-> <<<<Item("x", IntCell(1)), Item("label", Str(<<"k", "0", "0">>))>>,
                  <<Item("x", IntCell(2)), Item("label", Str(<<"k", "0", "1">>))>>>>],
      \* [{"x": 1}, {"x": 2, "y": "12:30"}]
      [kind |-> "list",
       list |-> <<<<Item("x", IntCell(1))>>,
                  <<Item("x", IntCell(2)), Item("y", Str(Clock(12)))>>>>],
      \* []
      [kind |-> "list", list |-> <<>>],
      \* {"x": 1, "label": "k00"}
      [kind |-> "dict",
       dict |-> <<Item("x", IntCell(1)), Item("label", Str(<<"k", "0", "0">>))>>],
      \* {"data": [{"q": 1}]}
      [kind |-> "dict", dict |-> <<Item("data", <<<<Item("q", IntCell(1))>>>>)>>],
      \* {"data": [{"q": 1}], "columns": ["q"], "columnTypes": {"q": "integer"},
      \*  "chartTypes": [{"type": "histogram", "column": "q", "title": "Q"}]}
      [kind |-> "dict",
       dict |-> <<Item("data", <<<<Item("q", IntCell(1))>>>>),
                  Item("columns", <<"q">>),
                  Item("columnTypes", <<Item("q", "integer")>>),
                  Item("chartTypes",
                       <<[type |-> "histogram", column |-> "q",
                          title |-> <<"Q">>]>>)>>]>>

NoCall == [op |-> "none", arg |-> 0]

\* Two ways of driving a DataExplorerConfig: "reload" calls the loaders any
\* number of times, with set_chart_types between them; "custom" loads a
\* table once and then builds a chart list of up to MaxCharts charts with
\* set_chart_types and add_chart (a load_csv that fails may come at any
\* time).
ConfigInit ==
    /\ config = NewConfig
    /\ cfgMode \in {"reload", "custom"}
    /\ cfgRaised = FALSE
    /\ cfgBefore = None
    /\ cfgCall = NoCall
    /\ cfgCleared = FALSE
    /\ cfgAdded = <<>>

MayLoad == cfgMode = "reload" \/ cfgCall = NoCall

\* a call load_csv(path): arg 0 is a path pd.read_csv cannot read
call_load_csv ==
    \E i \in 0..Len(Frames) :
        LET out == load_csv(config, IF i = 0 THEN None ELSE Some(Frames[i]))
        IN  /\ MayLoad \/ i = 0
            /\ config' = out.config
            /\ cfgRaised' = out.raised
            /\ cfgBefore' = IF out.raised THEN Some(config) ELSE None
            /\ cfgCall' = [op |-> "load_csv", arg |-> i]
            /\ cfgCleared' = (cfgCleared /\ out.raised)
            /\ cfgAdded' = IF out.raised THEN cfgAdded ELSE <<>>
            /\ UNCHANGED cfgMode
            /\ UNCHANGED otherThanConfig

\* a call load_dataframe(df)
call_load_dataframe ==
    \E i \in 1..Len(Frames) :
        /\ MayLoad
        /\ config' = load_dataframe(config, Frames[i])
        /\ cfgRaised' = FALSE
        /\ cfgBefore' = None
        /\ cfgCall' = [op |-> "load_dataframe", arg |-> i]
        /\ cfgCleared' = FALSE
        /\ cfgAdded' = <<>>
        /\ UNCHANGED cfgMode
        /\ UNCHANGED otherThanConfig

\* a call load_json(path): arg 0 is a path that cannot be opened or parsed
call_load_json ==
    \E i \in 0..Len(JsonDocs) :
        LET out == load_json(config, IF i = 0 THEN None ELSE Some(JsonDocs[i]))
        IN  /\ cfgMode = "reload"
            /\ config' = out.config
            /\ cfgRaised' = out.raised
            /\ cfgBefore' = IF out.raised THEN Some(config) ELSE None
            /\ cfgCall' = [op |-> "load_json", arg |-> i]
            /\ cfgCleared' = (cfgCleared /\ out.raised)
            /\ cfgAdded' = IF out.raised THEN cfgAdded ELSE <<>>
            /\ UNCHANGED cfgMode
            /\ UNCHANGED otherThanConfig

\* a call add_chart(chart_config)
call_add_chart ==
    \E chart \in CustomCharts :
        /\ cfgMode = "custom"
        /\ Len(config.chartTypes) < MaxCharts
        /\ Len(cfgAdded) < MaxCharts
        /\ config' = add_chart(config, chart)
        /\ cfgRaised' = FALSE
        /\ cfgBefore' = None
        /\ cfgCall' = [op |-> "add_chart", arg |-> 0]
        /\ cfgAdded' = Append(cfgAdded, chart)
        /\ UNCHANGED <<cfgCleared, cfgMode>>
        /\ UNCHANGED otherThanConfig

\* a call set_chart_types(chart_types)
call_set_chart_types ==
    \E charts \in ChartLists :
        /\ config' = set_chart_types(config, charts)
        /\ cfgRaised' = FALSE
        /\ cfgBefore' = None
        /\ cfgCall' = [op |-> "set_chart_types", arg |-> Len(charts)]
        /\ cfgCleared' = (charts = <<>>)
        /\ cfgAdded' = <<>>
        /\ UNCHANGED cfgMode
        /\ UNCHANGED otherThanConfig

ConfigNext ==
    \/ call_load_csv
    \/ call_load_dataframe
    \/ call_load_json
    \/ call_add_chart
    \/ call_set_chart_types

InitConfig ==
    ConfigInit /\ ExplorerIdle /\ DashIdle /\ InferIdle /\ V6Idle /\ ScriptsIdle
        /\ BuildIdle /\ GitIdle

SpecConfig == InitConfig /\ [][ConfigNext]_vars

-----------------------------------------------------------------------------
(* Properties of DataExplorerConfig *)

\* the last call was a load_csv or load_dataframe that returned
LoadedFrame ==
    /\ cfgCall.op \in {"load_csv", "load_dataframe"}
    /\ ~cfgRaised

\* C5: after any sequence of load_csv, load_dataframe, load_json,
\* set_chart_types and add_chart calls, every chart in chartTypes names a
\* column of the currently loaded data's columns.
ChartsNameLoadedColumns ==
    \A i \in 1..Len(config.chartTypes) :
        config.chartTypes[i].column \in Range(config.columns)

\* the distinct non-null values of a column
DistinctValues(col) ==
    {col.values[r] : r \in {r \in 1..Len(col.values) :
                              col.values[r].t \notin {"none", "nan"}}}

\* a column a chart is generated for: numeric, time, or string with at most
\* 20 distinct values
EligibleColumn(col) ==
    LET type == Get(config.columnTypes, col.name, "string")
    IN  \/ type \in {"integer", "number", "time"}
        \/ type = "string" /\ Cardinality(DistinctValues(col)) <= 20

\* C6: after load_csv / load_dataframe the generated chartTypes has exactly
\* min(6, E) entries, E the number of eligible columns; they are the first
\* eligible columns in table column order, each a flat record with type,
\* column and title.
AutoChartsAreFirstEligible ==
    LoadedFrame =>
        LET frame == Frames[cfgCall.arg]
            eligible == SelectSeq(frame, EligibleColumn)
            n == IF Len(eligible) < 6 THEN Len(eligible) ELSE 6
        IN  /\ Len(config.chartTypes) = n
            /\ \A i \in 1..n :
                  /\ DOMAIN config.chartTypes[i] = {"type", "column", "title"}
                  /\ config.chartTypes[i].column = eligible[i].name

\* C6 witness: a table whose first column is not eligible and that has more
\* than 6 eligible columns has been loaded
MoreThanSixEligibleLoaded ==
    /\ LoadedFrame
    /\ ~EligibleColumn(Frames[cfgCall.arg][1])
    /\ Len(SelectSeq(Frames[cfgCall.arg], EligibleColumn)) > 6
    /\ Len(config.chartTypes) = 6

\* C7: after set_chart_types([]) followed by add_chart(c1), ..., add_chart(ck)
\* chartTypes is exactly [c1, ..., ck] in call order, with no 6-chart cap.
CustomChartsKeptInOrder == cfgCleared => config.chartTypes = cfgAdded

\* C7 witness: on a loaded config whose table had generated charts, seven
\* charts have been added after set_chart_types([])
SevenCustomChartsAdded ==
    /\ cfgCleared
    /\ Len(cfgAdded) = 7
    /\ Len(config.columns) > 0
    /\ cfgCall.op = "add_chart"

\* C8: load_csv on a file that cannot be read raises and leaves the config
\* exactly as it was before the call.
FailedLoadCsvKeepsConfig ==
    cfgCall = [op |-> "load_csv", arg |-> 0] =>
        /\ cfgRaised
        /\ cfgBefore = Some(config)

\* C8 witness: load_csv failed on a config that holds a table and charts
FailedLoadCsvAfterLoad ==
    /\ cfgCall = [op |-> "load_csv", arg |-> 0]
    /\ Len(config.columns) > 0
    /\ Len(config.chartTypes) > 0
    /\ Len(config.data) > 0

Digit(c) == c \in {"0", "1", "2", "3", "4", "5", "6", "7", "8", "9"}

\* text reads H:MM or HH:MM, then :SS or nothing, then (if fraction) a
\* point and digits or nothing, then (if newline) one final newline or
\* nothing
ClockShape(text, fraction, newline) ==
    \E hl \in 1..2, sl \in {0, 3}, nl \in (IF newline THEN {0, 1} ELSE {0}),
       fl \in (IF fraction THEN 0..Len(text) ELSE {0}) :
        LET fw == IF fl > 0 THEN fl + 1 ELSE 0
            body == hl + 3 + sl + fw
        IN  /\ Len(text) = body + nl
            /\ \A i \in 1..hl : Digit(text[i])
            /\ text[hl + 1] = ":"
            /\ Digit(text[hl + 2]) /\ Digit(text[hl + 3])
            /\ sl = 3 => /\ text[hl + 4] = ":"
                         /\ Digit(text[hl + 5]) /\ Digit(text[hl + 6])
            /\ fl > 0 => /\ text[hl + 3 + sl + 1] = "."
                         /\ \A i \in 1..fl : Digit(text[hl + 3 + sl + 1 + i])
            /\ nl = 1 => text[body + 1] = "\n"

\* the first 100 non-null values of a column
SampledValues(col) ==
    LET present == SelectSeq(col.values, LAMBDA c : c.t \notin {"none", "nan"})
    IN  SubSeq(present, 1, IF Len(present) < 100 THEN Len(present) ELSE 100)

\* the type the claim gives a column
ClaimedType(col, fraction, newline) ==
    IF col.dtype = "int64" THEN "integer"
    ELSE IF col.dtype \in {"float64", "bool"} THEN "number"
    ELSE IF col.dtype = "datetime64" THEN "time"
    ELSE IF /\ col.dtype = "object"
            /\ Len(SampledValues(col)) > 0
            /\ \A i \in 1..Len(SampledValues(col)) :
                  ClockShape(SampledValues(col)[i].v, fraction, newline)
    THEN "time"
    ELSE "string"

ColumnTypesAre(fraction, newline) ==
    LoadedFrame =>
        LET frame == Frames[cfgCall.arg]
        IN  /\ Len(config.columnTypes) = Len(frame)
            /\ \A i \in 1..Len(frame) :
                  /\ config.columnTypes[i].k = frame[i].name
                  /\ config.columnTypes[i].v
                        = ClaimedType(frame[i], fraction, newline)

\* C9 as stated: after load_dataframe columnTypes has one entry per column:
\* 'integer' for integer dtype, 'number' for other numeric columns, 'time'
\* for datetime columns and string columns whose every sampled non-null
\* value matches HH:MM or HH:MM:SS, 'string' for every other column.
ColumnTypesStrictClock == ColumnTypesAre(FALSE, FALSE)

\* C9 amended: as C9, where a string column is 'time' when it has a
\* non-null value and each of its first 100 non-null values reads H:MM or
\* HH:MM, optionally :SS, optionally a fractional part (.digits), optionally
\* one final newline.
ColumnTypesClockWithFraction == ColumnTypesAre(TRUE, TRUE)

\* C9 witness: a table with fractional times, a final newline, an all-null
\* string column and non-time strings has been loaded
FractionalTimesLoaded ==
    /\ LoadedFrame
    /\ cfgCall.op = "load_dataframe"
    /\ Get(config.columnTypes, "tf", "") = "time"
    /\ Get(config.columnTypes, "z", "") = "time"
    /\ Get(config.columnTypes, "nl", "") = "time"
    /\ Get(config.columnTypes, "n", "") = "string"
    /\ Get(config.columnTypes, "x", "") = "string"
    /\ Get(config.columnTypes, "a", "") = "integer"

\* the charts of chartTypes that name the column
ChartsNaming(name) ==
    SelectSeq(config.chartTypes, LAMBDA ch : ch.column = name)

\* the column is typed 'string' in columnTypes
StringTyped(col) == Get(config.columnTypes, col.name, "") = "string"

\* as many as 6 eligible columns stand before place i of the table
SixChartsBefore(frame, i) ==
    Len(SelectSeq(SubSeq(frame, 1, i - 1), EligibleColumn)) >= 6

\* C11 as stated: a string-typed column gets a 'categorical' chart exactly
\* when it has at most 20 distinct non-null values, and a string column with
\* more than 20 distinct values gets no chart of any type.
StringChartIffFewCategories ==
    LoadedFrame =>
        \A i \in 1..Len(Frames[cfgCall.arg]) :
            LET col == Frames[cfgCall.arg][i]
            IN  StringTyped(col) =>
                    IF Cardinality(DistinctValues(col)) <= 20
                    THEN /\ Len(ChartsNaming(col.name)) = 1
                         /\ ChartsNaming(col.name)[1].type = "categorical"
                    ELSE ChartsNaming(col.name) = <<>>

\* C11 amended: a string-typed column gets a 'categorical' chart exactly
\* when it has at most 20 distinct non-null values and fewer than 6
\* chartable columns stand before it in the table (the list is cut to its
\* first 6 charts); any other string column gets no chart of any type.
StringChartIffFewCategoriesAndRoom ==
    LoadedFrame =>
        \A i \in 1..Len(Frames[cfgCall.arg]) :
            LET col == Frames[cfgCall.arg][i]
            IN  StringTyped(col) =>
                    IF /\ Cardinality(DistinctValues(col)) <= 20
                       /\ ~SixChartsBefore(Frames[cfgCall.arg], i)
                    THEN /\ Len(ChartsNaming(col.name)) = 1
                         /\ ChartsNaming(col.name)[1].type = "categorical"
                    ELSE ChartsNaming(col.name) = <<>>

\* C11 witness: a table is loaded with a string column of exactly 20
\* distinct values that is charted, one of 21 that is not, and one of 2
\* distinct values that stands behind six charts and is not charted
StringColumnsAroundLimitLoaded ==
    /\ LoadedFrame
    /\ \E i, j, k \in 1..Len(Frames[cfgCall.arg]) :
          LET frame == Frames[cfgCall.arg]
          IN  /\ StringTyped(frame[i]) /\ StringTyped(frame[j])
              /\ StringTyped(frame[k])
              /\ Cardinality(DistinctValues(frame[i])) = 20
              /\ Len(ChartsNaming(frame[i].name)) = 1
              /\ Cardinality(DistinctValues(frame[j])) = 21
              /\ ChartsNaming(frame[j].name) = <<>>
              /\ Cardinality(DistinctValues(frame[k])) = 2
              /\ SixChartsBefore(frame, k)
              /\ ChartsNaming(frame[k].name) = <<>>

-----------------------------------------------------------------------------
(* iterations/v4-focused/data_loader.py and
   iterations/v5-production/data_loader.py: type inference *)

\* Bounds of the inference model
MaxInferCols == 2

\* Program constants
V4SampleSize == 1000
AngleMax == 360
V4AngleUniques == 10
V5AngleUniques == 20
V5CategoricalLimit == 20
HistCharts == 6
AngleCharts == 1
BarCharts == 3

\* A number is the cell [t |-> "num", v |-> h], h counting halves: the cell
\* stands for h / 2, so that a float column can hold values that are not
\* whole. A column name is the tuple of its characters.
Whole(n) == [t |-> "num", v |-> 2 * n]

AndAHalf(n) == [t |-> "num", v |-> 2 * n + 1]

\* Series.min() / Series.max() of non-null numbers
SeriesMin(values) ==
    CHOOSE m \in {values[i].v : i \in 1..Len(values)} :
        \A i \in 1..Len(values) : m <= values[i].v

SeriesMax(values) ==
    CHOOSE m \in {values[i].v : i \in 1..Len(values)} :
        \A i \in 1..Len(values) : m >= values[i].v

\* (series % 1 == 0).all()
AllWhole(values) == \A i \in 1..Len(values) : values[i].v % 2 = 0

\* series.dtype in ['int64', 'int32']
IsIntDtype(dtype) == dtype \in {"int64", "int32"}

\* str.match(r'^\d{1,2}:\d{2}(:\d{2})?$')
MatchClock(text) ==
    \E r1 \in AfterHourMinute(text) : \E r2 \in AfterSeconds(r1) : AtEnd(r2)

\* min() >= 0 and max() <= 360
InAngleRange(values) ==
    SeriesMin(values) >= 0 /\ SeriesMax(values) <= 2 * AngleMax

\* v4 SimpleDataLoader._infer_type(values), values without nulls
_infer_type(dtype, values) ==
    LET sample == head(values, V4SampleSize)
        matches == Len(SelectSeq(sample, LAMBDA c : MatchClock(c.v)))
    IN  IF dtype = "object" /\ 10 * matches > 8 * Len(sample) THEN "time"
        ELSE IF is_numeric_dtype(dtype)
        THEN IF InAngleRange(sample)
                /\ Cardinality(Range(sample)) > V4AngleUniques
             THEN "angle"
             ELSE IF IsIntDtype(dtype) \/ AllWhole(sample) THEN "integer"
             ELSE "number"
        ELSE "string"

\* v4 SimpleDataLoader._infer_columns(df)
_infer_columns(frame) ==
    LET typed == [i \in 1..Len(frame) |->
                    LET values == dropna(frame[i].values)
                    IN  IF Len(values) = 0 THEN <<>>
                        ELSE <<[name |-> frame[i].name,
                                type |-> _infer_type(frame[i].dtype, values)]>>]
    IN  Flatten(typed)

\* v4 SimpleDataLoader.__init__
NewLoader == [data |-> <<>>, columns |-> <<>>, title |-> <<"Data Explorer">>]

\* the type v5 load_and_generate gives a column, values without nulls
V5Type(dtype, values) ==
    IF is_numeric_dtype(dtype)
    THEN IF InAngleRange(values) /\ nunique(values) > V5AngleUniques
         THEN "angle"
         ELSE IF IsIntDtype(dtype) \/ AllWhole(values) THEN "integer"
         ELSE "number"
    ELSE IF dtype = "object" /\ nunique(values) <= V5CategoricalLimit
    THEN "string"
    ELSE "number"

\* v5 load_and_generate: the columns dict
V5Columns(frame) ==
    LET typed == [i \in 1..Len(frame) |->
                    LET values == dropna(frame[i].values)
                    IN  IF Len(values) = 0 THEN <<>>
                        ELSE <<[k |-> frame[i].name,
                                v |-> V5Type(frame[i].dtype, values)]>>]
    IN  Flatten(typed)

\* the keys of the columns dict whose type is one of types, in dict order
ColumnsTyped(columns, types) ==
    Keys(SelectSeq(columns, LAMBDA it : it.v \in types))

RECURSIVE FillHist(_, _, _)
\* while len(hist_cols) < 6: take the first bar column, else repeat
\* hist_cols[0], else df.columns[0] (an IndexError when there is none)
FillHist(hist, bar, names) ==
    IF Len(hist) >= HistCharts THEN [raised |-> FALSE, hist |-> hist, bar |-> bar]
    ELSE IF Len(bar) > 0 THEN FillHist(Append(hist, Head(bar)), Tail(bar), names)
    ELSE IF Len(hist) > 0 THEN FillHist(Append(hist, hist[1]), bar, names)
    ELSE IF Len(names) > 0 THEN FillHist(Append(hist, names[1]), bar, names)
    ELSE [raised |-> TRUE, hist |-> hist, bar |-> bar]

RECURSIVE FillFromHist(_, _, _, _)
\* while len(cols) < need: take hist_cols.pop(), else df.columns[0]
FillFromHist(cols, need, hist, names) ==
    IF Len(cols) >= need THEN [raised |-> FALSE, cols |-> cols, hist |-> hist]
    ELSE IF Len(hist) > 0
    THEN FillFromHist(Append(cols, hist[Len(hist)]), need,
                      SubSeq(hist, 1, Len(hist) - 1), names)
    ELSE IF Len(names) > 0 THEN FillFromHist(Append(cols, names[1]), need, hist, names)
    ELSE [raised |-> TRUE, cols |-> cols, hist |-> hist]

LowerCase ==
    <<"a", "b", "c", "d", "e", "f", "g", "h", "i", "j", "k", "l", "m",
      "n", "o", "p", "q", "r", "s", "t", "u", "v", "w", "x", "y", "z">>

UpperCase ==
    <<"A", "B", "C", "D", "E", "F", "G", "H", "I", "J", "K", "L", "M",
      "N", "O", "P", "Q", "R", "S", "T", "U", "V", "W", "X", "Y", "Z">>

\* name.replace('_', ' ').upper()
ChartTitle(name) ==
    [i \in 1..Len(name) |->
        IF name[i] = "_" THEN " "
        ELSE IF \E j \in 1..Len(LowerCase) : LowerCase[j] = name[i]
        THEN UpperCase[CHOOSE j \in 1..Len(LowerCase) : LowerCase[j] = name[i]]
        ELSE name[i]]

\* the nine places of the grid: the chart's type and which entry of
\* hist_cols, angle_cols or bar_cols it shows (counted from 1)
GridPlaces ==
    <<[id |-> "chart1", type |-> "histogram", at |-> 1],
      [id |-> "chart2", type |-> "histogram", at |-> 2],
      [id |-> "chart3", type |-> "angle", at |-> 1],
      [id |-> "chart4", type |-> "histogram", at |-> 3],
      [id |-> "chart5", type |-> "histogram", at |-> 4],
      [id |-> "chart6", type |-> "bar", at |-> 1],
      [id |-> "chart7", type |-> "histogram", at |-> 5],
      [id |-> "chart8", type |-> "bar", at |-> 2],
      [id |-> "chart9", type |-> "bar", at |-> 3]>>

\* v5 load_and_generate: chart_layout from the columns dict, or an IndexError
ChartLayout(columns, names) ==
    LET h1 == FillHist(ColumnsTyped(columns, {"integer", "number"}),
                       ColumnsTyped(columns, {"string"}), names)
        a2 == FillFromHist(ColumnsTyped(columns, {"angle"}), AngleCharts,
                           h1.hist, names)
        b3 == FillFromHist(h1.bar, BarCharts, a2.hist, names)
        pick(place) == IF place.type = "histogram" THEN b3.hist
                       ELSE IF place.type = "angle" THEN a2.cols
                       ELSE b3.cols
    IN  IF h1.raised \/ a2.raised \/ b3.raised
           \/ \E i \in 1..Len(GridPlaces) :
                 GridPlaces[i].at > Len(pick(GridPlaces[i]))
        THEN [raised |-> TRUE, layout |-> <<>>]
        ELSE [raised |-> FALSE,
              layout |-> [i \in 1..Len(GridPlaces) |->
                            LET column == pick(GridPlaces[i])[GridPlaces[i].at]
                            IN  [id |-> GridPlaces[i].id,
                                 type |-> GridPlaces[i].type,
                                 column |-> column,
                                 title |-> ChartTitle(column)]]]

\* v5 load_and_generate(input_file): a file is [suffix, frame], frame the
\* table pandas reads from it
load_and_generate(file, hasTemplate) ==
    IF file.suffix \notin {".csv", ".xlsx", ".xls", ".json"}
    THEN [raised |-> TRUE, columns |-> <<>>, chartLayout |-> <<>>,
          written |-> FALSE]
    ELSE LET columns == V5Columns(file.frame)
             made == ChartLayout(columns,
                                 [i \in 1..Len(file.frame) |-> file.frame[i].name])
         IN  IF made.raised \/ ~hasTemplate
             THEN [raised |-> TRUE, columns |-> columns,
                   chartLayout |-> made.layout, written |-> FALSE]
             ELSE [raised |-> FALSE, columns |-> columns,
                   chartLayout |-> made.layout, written |-> TRUE]

\* Inputs of the inference model: columns of ShortRows rows, and tall columns
\* one row longer than the v4 sample plus ten
ShortRows == V5AngleUniques + 1

TallRows == V4SampleSize + V4AngleUniques + 1

\* n rows going round the k whole numbers from, from + step, ...
Round(n, k, from, step) == [i \in 1..n |-> Whole(from + ((i - 1) % k) * step)]

\* the first V4SampleSize rows go round V4AngleUniques whole numbers, the
\* rows after them bring new ones
TallValues ==
    [i \in 1..TallRows |->
        IF i <= V4SampleSize THEN Whole((i - 1) % V4AngleUniques)
        ELSE Whole(i - V4SampleSize + V4AngleUniques)]

InferColumns ==
    <<Col(<<"d", "e", "g">>, "int64", Round(ShortRows, V4AngleUniques + 1, 0, 1)),
      Col(<<"t", "u", "r", "n">>, "int64", Round(ShortRows, ShortRows, 0, 18)),
      Col(<<"f", "e", "w">>, "int64", Round(ShortRows, V4AngleUniques, 0, 36)),
      Col(<<"n", "e", "g">>, "int64", Round(ShortRows, ShortRows, 0 - 1, 1)),
      Col(<<"b", "i", "g">>, "float64",
          [i \in 1..ShortRows |-> AndAHalf(AngleMax - ShortRows + i)]),
      Col(<<"h", "a", "l", "f">>, "float64", [i \in 1..ShortRows |-> AndAHalf(i)]),
      Col(<<"g", "a", "p", "_", "s">>, "float64",
          [i \in 1..ShortRows |->
              IF i % 7 = 0 THEN NanCell ELSE Whole((i - 1) % (V4AngleUniques + 1))]),
      Col(<<"d", "e", "p", "t">>, "object", Labels(ShortRows, 3)),
      Col(<<"a", "t">>, "object", Times(ShortRows, "hm")),
      Col(<<"u", "s", "e", "r", "_", "i", "d">>, "object",
          Labels(ShortRows, ShortRows)),
      Col(<<"n", "o", "n", "e">>, "object", Nones(ShortRows)),
      Col(<<"l", "o", "n", "g">>, "int64", TallValues)>>

\* the table of all the short columns
AllShortColumns ==
    SelectSeq(InferColumns, LAMBDA col : Len(col.values) = ShortRows)

\* the tables: up to MaxInferCols different columns of equal length, and
\* the table of all the short columns
InferTables ==
    {AllShortColumns} \cup
    {[i \in 1..Len(pick) |-> InferColumns[pick[i]]] :
        pick \in {p \in SeqsUpTo(1..Len(InferColumns), MaxInferCols) :
                    /\ Len(p) > 0
                    /\ \A i, j \in 1..Len(p) :
                          /\ i # j => p[i] # p[j]
                          /\ Len(InferColumns[p[i]].values)
                                = Len(InferColumns[p[j]].values)}}

InferInit ==
    /\ program \in {"v4", "v5"}
    /\ loader = NewLoader
    /\ generated = None
    /\ inferInput = None
    /\ template \in BOOLEAN

\* v4 SimpleDataLoader.load_csv(file_path); main loads one file per run
v4_load_csv ==
    \E frame \in InferTables :
        /\ program = "v4"
        /\ inferInput = None
        /\ loader' = [loader EXCEPT !.data = to_dict_records(frame),
                                    !.columns = _infer_columns(frame)]
        /\ inferInput' = Some(frame)
        /\ UNCHANGED <<program, generated, template>>
        /\ UNCHANGED otherThanInfer

\* v5 load_and_generate(input_file) on a file pandas can read; main
\* generates one page per run
v5_load_and_generate ==
    \E frame \in InferTables, suffix \in {".csv", ".txt"} :
        /\ program = "v5"
        /\ generated = None
        /\ generated' = Some(load_and_generate([suffix |-> suffix, frame |-> frame],
                                               template))
        /\ inferInput' = IF suffix = ".csv" THEN Some(frame) ELSE None
        /\ UNCHANGED <<program, loader, template>>
        /\ UNCHANGED otherThanInfer

InferNext ==
    \/ v4_load_csv
    \/ v5_load_and_generate

InitInfer ==
    InferInit /\ ExplorerIdle /\ DashIdle /\ ConfigIdle /\ V6Idle /\ ScriptsIdle
        /\ BuildIdle /\ GitIdle

SpecInfer == InitInfer /\ [][InferNext]_vars

-----------------------------------------------------------------------------
(* Properties of the type inference *)

\* a numeric column with a non-null value, every non-null value in [0, 360],
\* and more than 10 distinct values
AngleLike(col) ==
    LET present == {col.values[r].v :
                      r \in {r \in 1..Len(col.values) :
                               col.values[r].t \notin {"none", "nan"}}}
    IN  /\ col.dtype \in {"int64", "float64"}
        /\ present # {}
        /\ \A h \in present : 0 <= h /\ h <= 2 * 360
        /\ Cardinality(present) > 10

\* the type the running loader recorded for the column name, "" if none
RecordedType(name) ==
    IF program = "v4"
    THEN IF \E i \in 1..Len(loader.columns) : loader.columns[i].name = name
         THEN loader.columns[CHOOSE i \in 1..Len(loader.columns) :
                                loader.columns[i].name = name].type
         ELSE ""
    ELSE Get(The(generated).columns, name, "")

\* C10: in the v4 and v5 loaders a numeric column whose non-null values all
\* lie in [0, 360] and that has more than 10 distinct values is typed
\* 'angle'.
AngleColumnsTypedAngle ==
    inferInput # None =>
        \A i \in 1..Len(The(inferInput)) :
            AngleLike(The(inferInput)[i])
                => RecordedType(The(inferInput)[i].name) = "angle"

\* v5 read a table with a column holding a non-null value, and its
\* template is in place
V5ReadUsableTable ==
    /\ program = "v5"
    /\ inferInput # None
    /\ template
    /\ \E i \in 1..Len(The(inferInput)) :
          \E r \in 1..Len(The(inferInput)[i].values) :
              The(inferInput)[i].values[r].t \notin {"none", "nan"}

\* C12: for every input table with a column holding a non-null value, v5
\* load_and_generate completes without error and emits a chartLayout of
\* exactly nine entries chart1..chart9 with types histogram, histogram,
\* angle, histogram, histogram, bar, histogram, bar, bar, each naming a
\* column of the input table.
V5AlwaysEmitsNineCharts ==
    V5ReadUsableTable =>
        LET out == The(generated)
            ids == <<"chart1", "chart2", "chart3", "chart4", "chart5",
                     "chart6", "chart7", "chart8", "chart9">>
            types == <<"histogram", "histogram", "angle", "histogram",
                       "histogram", "bar", "histogram", "bar", "bar">>
        IN  /\ ~out.raised
            /\ Len(out.chartLayout) = 9
            /\ \A i \in 1..9 :
                  /\ out.chartLayout[i].id = ids[i]
                  /\ out.chartLayout[i].type = types[i]
                  /\ \E c \in 1..Len(The(inferInput)) :
                        The(inferInput)[c].name = out.chartLayout[i].column

-----------------------------------------------------------------------------
(* iterations/v6-extended: load_your_data.py and embed_data.py, and the
   JavaScript they put into the page *)

\* Bounds of the v6 model
MaxCsvRows == 2

\* Program constants
TemplateRows == 10000000
MinRows == 1000

\* The ten fields of the page in the order the loop fills them, each with
\* the default the loop writes after `||` and the kind of its typed array
V6Fields ==
    <<[name |-> "width", default |-> 50, array |-> "Float32Array"],
      [name |-> "height", default |-> 5, array |-> "Float32Array"],
      [name |-> "angle", default |-> 0, array |-> "Float32Array"],
      [name |-> "strength", default |-> 50, array |-> "Float32Array"],
      [name |-> "timeSeconds", default |-> 43200, array |-> "Float32Array"],
      [name |-> "category_4", default |-> 0, array |-> "Uint8Array"],
      [name |-> "category_2", default |-> 0, array |-> "Uint8Array"],
      [name |-> "score", default |-> 75, array |-> "Float32Array"],
      [name |-> "department", default |-> 0, array |-> "Uint8Array"],
      [name |-> "status", default |-> 1, array |-> "Uint8Array"]>>

\* A CSV is [columns, rows]: the header and, per row, one cell per column.
\* A cell is <<n>> for the whole number n and <<>> for an empty cell, which
\* pandas reads as NaN and json.dumps writes as NaN.
\* row.field in JavaScript: "undefined" when the row has no such key
JsMember(csv, r, field) ==
    IF \E c \in 1..Len(csv.columns) : csv.columns[c] = field
    THEN [defined |-> TRUE,
          cell |-> csv.rows[r][CHOOSE c \in 1..Len(csv.columns) :
                                  csv.columns[c] = field]]
    ELSE [defined |-> FALSE, cell |-> <<>>]

\* a JavaScript value that `||` skips: undefined, NaN or 0
JsFalsy(member) ==
    \/ ~member.defined
    \/ member.cell = <<>>
    \/ member.cell = <<0>>

\* array[i] = value: a Float32Array holds a whole number below 2^24 as it
\* is, a Uint8Array holds it modulo 256
TypedStore(array, n) == IF array = "Uint8Array" THEN n % 256 ELSE n

\* data.field[i] = row.field || default
FilledElement(csv, r, field) ==
    LET member == JsMember(csv, r, field.name)
    IN  TypedStore(field.array,
                   IF JsFalsy(member) THEN field.default ELSE member.cell[1])

\* the typed arrays after the rows of csvData have been filled in: per
\* field (in the order of V6Fields) the elements 0 .. csvData.length - 1
FilledArrays(csv) ==
    [f \in 1..Len(V6Fields) |->
        [r \in 1..Len(csv.rows) |-> FilledElement(csv, r, V6Fields[f])]]

Max2(a, b) == IF a >= b THEN a ELSE b

\* load_and_generate_explorer(csv_file): the page written. The "shipped"
\* template holds every text the scripts look for; a "reworded" one holds
\* the ROWS constant and the totals but not the generateData header or the
\* generation loop.
load_and_generate_explorer(csv, tpl) ==
    [by |-> "load_your_data",
     embedded |-> tpl = "shipped",
     csvData |-> csv,
     rowsConst |-> TemplateRows,
     shownTotal |-> Len(csv.rows)]

\* embed_csv_data(csv_file): the page written
embed_csv_data(csv, tpl) ==
    IF tpl = "shipped"
    THEN [by |-> "embed_data",
          embedded |-> TRUE,
          csvData |-> csv,
          rowsConst |-> Max2(Len(csv.rows), MinRows),
          shownTotal |-> Len(csv.rows)]
    ELSE [by |-> "embed_data",
          embedded |-> FALSE,
          csvData |-> csv,
          rowsConst |-> Len(csv.rows),
          shownTotal |-> TemplateRows]

\* generateData() of the written page: [rows, arrays, filler, random], rows
\* the page's row count, arrays the elements filled from csvData, filler
\* the elements after them set to the defaults, random the elements the
\* template's own generator drew
generateData(page) ==
    IF ~page.embedded
    THEN [rows |-> page.rowsConst, arrays |-> FilledArrays([columns |-> <<>>,
                                                            rows |-> <<>>]),
          filler |-> 0, random |-> page.rowsConst]
    ELSE IF page.by = "load_your_data"
    THEN [rows |-> Len(page.csvData.rows), arrays |-> FilledArrays(page.csvData),
          filler |-> 0, random |-> 0]
    ELSE LET filled == Min2(Len(page.csvData.rows), page.rowsConst)
         IN  [rows |-> page.rowsConst,
              arrays |-> FilledArrays([page.csvData EXCEPT
                            !.rows = SubSeq(page.csvData.rows, 1, filled)]),
              filler |-> page.rowsConst - filled, random |-> 0]

\* Inputs of the v6 model
FieldNames == [f \in 1..Len(V6Fields) |-> V6Fields[f].name]

\* the header of the documented format, which has no category_2
DocumentedColumns == SelectSeq(FieldNames, LAMBDA n : n # "category_2")

\* a value of each field's documented range, none of them 0
TypicalValues == <<10, 2, 45, 75, 3600, 3, 1, 85, 7, 1>>

\* a row of the kind "typical", "zeros" (every cell 0) or "gaps" (every
\* cell empty) under the header columns
CsvRow(kind, columns) ==
    [c \in 1..Len(columns) |->
        IF kind = "zeros" THEN <<0>>
        ELSE IF kind = "gaps" THEN <<>>
        ELSE <<TypicalValues[CHOOSE f \in 1..Len(FieldNames) :
                                FieldNames[f] = columns[c]]>>]

RowKinds == {"typical", "zeros", "gaps"}

\* CSVs of up to MaxCsvRows rows, and CSVs around MinRows rows
CsvFiles ==
    {[columns |-> columns,
      rows |-> [r \in 1..Len(kinds) |-> CsvRow(kinds[r], columns)]] :
        columns \in {FieldNames, DocumentedColumns},
        kinds \in SeqsUpTo(RowKinds, MaxCsvRows)}
    \cup
    {[columns |-> FieldNames,
      rows |-> [r \in 1..n |-> CsvRow("typical", FieldNames)]] :
        n \in {MinRows, MinRows + 1}}

V6Init ==
    /\ v6Template \in {"shipped", "reworded"}
    /\ v6Csv = None
    /\ v6Page = None
    /\ v6Data = None

\* python load_your_data.py your_data.csv
run_load_your_data ==
    \E csv \in CsvFiles :
        /\ v6Page = None
        /\ v6Csv' = Some(csv)
        /\ v6Page' = Some(load_and_generate_explorer(csv, v6Template))
        /\ UNCHANGED <<v6Template, v6Data>>
        /\ UNCHANGED otherThanV6

\* python embed_data.py your_data.csv
run_embed_data ==
    \E csv \in CsvFiles :
        /\ v6Page = None
        /\ v6Csv' = Some(csv)
        /\ v6Page' = Some(embed_csv_data(csv, v6Template))
        /\ UNCHANGED <<v6Template, v6Data>>
        /\ UNCHANGED otherThanV6

\* the browser opens the written page, which calls generateData()
open_page ==
    /\ v6Page # None
    /\ v6Data = None
    /\ v6Data' = Some(generateData(The(v6Page)))
    /\ UNCHANGED <<v6Template, v6Csv, v6Page>>
    /\ UNCHANGED otherThanV6

V6Next ==
    \/ run_load_your_data
    \/ run_embed_data
    \/ open_page

InitV6 ==
    V6Init /\ ExplorerIdle /\ DashIdle /\ ConfigIdle /\ InferIdle /\ ScriptsIdle
        /\ BuildIdle /\ GitIdle

SpecV6 == InitV6 /\ [][V6Next]_vars

-----------------------------------------------------------------------------
(* Properties of the v6 pages *)

\* a page made from the shipped template has loaded
ShippedPageLoaded(script) ==
    /\ v6Template = "shipped"
    /\ v6Data # None
    /\ The(v6Page).by = script

\* the value the CSV row r has for the field, or none
OwnValue(csv, r, name) ==
    IF \E c \in 1..Len(csv.columns) : csv.columns[c] = name
    THEN csv.rows[r][CHOOSE c \in 1..Len(csv.columns) : csv.columns[c] = name]
    ELSE <<>>

\* C13: in the page generated by load_and_generate_explorer, element i of
\* each of the ten typed arrays holds row i's own value for the field,
\* values of 0 included; the default is used only when the row has no value
\* for the field.
ArraysHoldRowValues ==
    ShippedPageLoaded("load_your_data") =>
        LET csv == The(v6Csv)
            out == The(v6Data)
        IN  \A f \in 1..Len(V6Fields) :
                /\ Len(out.arrays[f]) = Len(csv.rows)
                /\ \A r \in 1..Len(csv.rows) :
                      LET own == OwnValue(csv, r, V6Fields[f].name)
                      IN  out.arrays[f][r]
                            = IF own = <<>> THEN V6Fields[f].default ELSE own[1]

\* C14: embed_csv_data sets the page's ROWS constant to the number of rows
\* in the CSV, for every CSV size, so the page holds the CSV's rows and no
\* filler rows.
RowsConstantIsCsvSize ==
    ShippedPageLoaded("embed_data") =>
        /\ The(v6Page).rowsConst = Len(The(v6Csv).rows)
        /\ The(v6Data).rows = Len(The(v6Csv).rows)
        /\ The(v6Data).filler = 0

\* ------------------------------------------------------------------------
\* src/scripts/csv_to_dashboard.py and csv_to_selectable_dashboard.py
\* ------------------------------------------------------------------------
\* Times are counted in quarters of a second and every other number in
\* steps of 2^-17, so that the float32 arrays the scripts build can be
\* rounded as numpy rounds them.

\* the number of rows of the CSV files the scripts are run on
ScriptRows == 5

\* quarters in one second: 2^2
PerSecond == Pow2(2)

\* steps in 1.0: 2^17
PerUnit == Pow2(17)

\* bits of a float32 significand
Float32Bits == 24

\* values.astype(np.float32) of a number of y steps: round to the nearest
\* float32, ties to the even significand
Float32(y) ==
    LET a == Abs(y)
        k == Log2(a) + 1 - Float32Bits
        step == IF k > 0 THEN Pow2(k) ELSE 1
        q == a \div step
        r == a % step
        up == 2 * r > step \/ (2 * r = step /\ q % 2 = 1)
        m == IF up THEN (q + 1) * step ELSE q * step
    IN  IF y < 0 THEN 0 - m ELSE m

\* a numeric cell: n holds the quarters of a second of a time, the steps
\* of any other number
Number(n) == [t |-> "num", n |-> n]

RECURSIVE split(_, _)
\* str.split(sep): the parts of text around every sep
split(text, sep) ==
    IF \E i \in 1..Len(text) : text[i] = sep
    THEN LET i == CHOOSE j \in 1..Len(text) :
                      text[j] = sep /\ \A h \in 1..(j - 1) : text[h] # sep
         IN  <<SubSeq(text, 1, i - 1)>>
                 \o split(SubSeq(text, i + 1, Len(text)), sep)
    ELSE <<text>>

RECURSIVE strip(_)
\* the text without its leading and trailing blanks, as int() and float()
\* read it
strip(text) ==
    IF Len(text) > 0 /\ text[1] = " " THEN strip(Tail(text))
    ELSE IF Len(text) > 0 /\ text[Len(text)] = " "
    THEN strip(SubSeq(text, 1, Len(text) - 1))
    ELSE text

RECURSIVE DigitsValue(_)
\* the number a run of decimal digits writes
DigitsValue(text) ==
    IF Len(text) = 0 THEN 0
    ELSE 10 * DigitsValue(SubSeq(text, 1, Len(text) - 1))
            + (CHOOSE d \in 0..9 : DigitText[d + 1] = text[Len(text)])

RECURSIVE Pow10(_)
Pow10(k) == IF k = 0 THEN 1 ELSE 10 * Pow10(k - 1)

Signed(text) == Len(text) > 0 /\ text[1] \in {"-", "+"}

Unsigned(text) == IF Signed(text) THEN Tail(text) ELSE text

\* int(text): None when int() raises ValueError
PyInt(text) ==
    LET body == Unsigned(strip(text))
    IN  IF Len(body) > 0 /\ AllDigits(body)
        THEN Some(IF strip(text)[1] = "-" THEN 0 - DigitsValue(body)
                  ELSE DigitsValue(body))
        ELSE None

\* float(text) in quarters: None when float() raises ValueError.  Decimal
\* texts only (digits with at most one point), fractions in quarters.
PyFloat(text) ==
    LET body == Unsigned(strip(text))
        parts == split(body, ".")
        whole == parts[1]
        frac == IF Len(parts) > 1 THEN parts[2] ELSE <<>>
        value == PerSecond * DigitsValue(whole)
                    + (PerSecond * DigitsValue(frac)) \div Pow10(Len(frac))
    IN  IF /\ Len(parts) <= 2
           /\ AllDigits(whole) /\ AllDigits(frac)
           /\ Len(whole) + Len(frac) > 0
        THEN Some(IF strip(text)[1] = "-" THEN 0 - value ELSE value)
        ELSE None

SecondsPerHour == 3600

SecondsPerMinute == 60

\* time_to_seconds without its try and except: what int() and float() raise
\* leaves the function
time_to_seconds_unguarded(time_val) ==
    IF isna(time_val) THEN [raised |-> FALSE, value |-> 0]
    ELSE IF time_val.t = "num"
    THEN [raised |-> FALSE, value |-> time_val.n]
    ELSE IF \E i \in 1..Len(time_val.v) : time_val.v[i] = ":"
    THEN LET parts == split(time_val.v, ":")
             hours == PyInt(parts[1])
             minutes == PyInt(parts[2])
             seconds == IF Len(parts) > 2 THEN PyFloat(parts[3]) ELSE Some(0)
         IN  IF hours = None \/ minutes = None \/ seconds = None
             THEN [raised |-> TRUE, value |-> 0]
             ELSE [raised |-> FALSE,
                   value |-> PerSecond * (The(hours) * SecondsPerHour
                                            + The(minutes) * SecondsPerMinute)
                                + The(seconds)]
    ELSE LET number == PyFloat(time_val.v)
         IN  IF number = None THEN [raised |-> TRUE, value |-> 0]
             ELSE [raised |-> FALSE, value |-> The(number)]

\* csv_to_dashboard.time_to_seconds; the result is [raised, value], the
\* value in quarters of a second
time_to_seconds(time_val) ==
    IF isna(time_val) THEN [raised |-> FALSE, value |-> 0]
    ELSE IF time_val.t = "num"
    THEN [raised |-> FALSE, value |-> time_val.n]
    ELSE IF \E i \in 1..Len(time_val.v) : time_val.v[i] = ":"
    THEN LET parts == split(time_val.v, ":")
             hours == PyInt(parts[1])
             minutes == PyInt(parts[2])
             seconds == IF Len(parts) > 2 THEN PyFloat(parts[3]) ELSE Some(0)
         IN  IF hours = None \/ minutes = None \/ seconds = None
             THEN [raised |-> FALSE, value |-> 0]
             ELSE [raised |-> FALSE,
                   value |-> PerSecond * (The(hours) * SecondsPerHour
                                            + The(minutes) * SecondsPerMinute)
                                + The(seconds)]
    ELSE LET number == PyFloat(time_val.v)
         IN  IF number = None THEN [raised |-> FALSE, value |-> 0]
             ELSE [raised |-> FALSE, value |-> The(number)]

\* format(n, "02d") and format(n, "03d")
ZeroPad(n, width) ==
    LET digits == Decimal(Abs(n))
        signed == IF n < 0 THEN <<"-">> \o digits ELSE digits
    IN  [i \in 1..(width - Min2(width, Len(signed))) |-> "0"] \o signed

\* Lines 98-104: the good_time string of one time in quarters of a second
good_time(ts) ==
    LET hours == ts \div (SecondsPerHour * PerSecond)
        minutes == (ts % (SecondsPerHour * PerSecond))
                       \div (SecondsPerMinute * PerSecond)
        seconds == ts % (SecondsPerMinute * PerSecond)
        milliseconds == ((seconds % PerSecond) * 1000) \div PerSecond
    IN  ZeroPad(hours, 2) \o <<":">> \o ZeroPad(minutes, 2) \o <<":">>
            \o ZeroPad(seconds \div PerSecond, 2) \o <<".">>
            \o ZeroPad(milliseconds, 3)

\* an element of a numpy array: a number, NaN, or a draw of np.random
Elem(n) == [k |-> "num", v |-> n]

NanElem == [k |-> "nan", v |-> 0]

Drawn == [k |-> "random", v |-> 0]

RECURSIVE SumOf(_)
SumOf(numbers) ==
    IF Len(numbers) = 0 THEN 0 ELSE Head(numbers) + SumOf(Tail(numbers))

\* Series.mean(): the mean of the cells that are not missing, NaN when
\* there is none
mean(column) ==
    LET present == dropna(column)
    IN  IF Len(present) = 0 THEN NanElem
        ELSE Elem(SumOf([i \in 1..Len(present) |-> present[i].n])
                    \div Len(present))

\* column.fillna(fill).values.astype(np.float32), fill an element
FilledFloat32(column, fill) ==
    [i \in 1..Len(column) |->
        IF isna(column[i])
        THEN (IF fill.k = "num" THEN Elem(Float32(fill.v)) ELSE fill)
        ELSE Elem(Float32(column[i].n))]

FullTurn == 360

\* numpy's float32 remainder x % divisor for a positive divisor: fmod, then
\* the divisor added in float32 when the remainder is negative
Float32Mod(x, divisor) ==
    IF x.k # "num" THEN x
    ELSE LET fmod == IF x.v < 0 THEN 0 - (Abs(x.v) % divisor)
                     ELSE x.v % divisor
         IN  IF fmod < 0 THEN Elem(Float32(fmod + divisor)) ELSE Elem(fmod)

ModFullTurn(array) ==
    [i \in 1..Len(array) |-> Float32Mod(array[i], FullTurn * PerUnit)]

\* array.min() and array.max(): NaN when an element is NaN
ArrayMin(array) ==
    IF \E i \in 1..Len(array) : array[i].k # "num" THEN NanElem
    ELSE Elem(CHOOSE m \in {array[i].v : i \in 1..Len(array)} :
                  \A i \in 1..Len(array) : m <= array[i].v)

ArrayMax(array) ==
    IF \E i \in 1..Len(array) : array[i].k # "num" THEN NanElem
    ELSE Elem(CHOOSE m \in {array[i].v : i \in 1..Len(array)} :
                  \A i \in 1..Len(array) : m >= array[i].v)

Uint8 == 256

\* (column == value).astype(int): a missing cell equals nothing
EqualsFlags(column, value) ==
    [i \in 1..Len(column) |->
        Elem(IF ~isna(value) /\ column[i] = value THEN 1 ELSE 0)]

Zeros(n) == [i \in 1..n |-> Elem(0)]

Draws(n) == [i \in 1..n |-> Drawn]

\* csv_to_dashboard.prepare_data(df, args) with no --sample-size; frame names
\* the columns the arguments select, None for a column the CSV lacks
dashboard_prepare_data(frame) ==
    IF \E f \in {"time", "width", "height", "angle", "strength", "category"} :
           frame[f] = None
    THEN [raised |-> TRUE, data |-> <<>>, ranges |-> <<>>, rows |-> 0]
    ELSE
    LET time_col == The(frame.time)
        width_col == The(frame.width)
        height_col == The(frame.height)
        angle_col == The(frame.angle)
        strength_col == The(frame.strength)
        category_col == The(frame.category)
        unique_categories == unique(category_col)
        category_indices ==
            [i \in 1..Len(category_col) |->
                Elem(CodeOf(unique_categories, category_col[i]))]
        category2_binary ==
            IF frame.category2 # None
            THEN EqualsFlags(The(frame.category2), unique(The(frame.category2))[1])
            ELSE Zeros(Len(time_col))
        time_seconds ==
            [i \in 1..Len(time_col) |-> time_to_seconds(time_col[i]).value]
        data ==
            [good_time |->
                 [i \in 1..Len(time_seconds) |-> good_time(time_seconds[i])],
             width |-> FilledFloat32(width_col, mean(width_col)),
             height |-> FilledFloat32(height_col, mean(height_col)),
             angle |-> ModFullTurn(FilledFloat32(angle_col, Elem(0))),
             strength |-> FilledFloat32(strength_col, mean(strength_col)),
             category_4 |->
                 [i \in 1..Len(category_indices) |->
                     Elem(category_indices[i].v % Uint8)],
             category_2 |-> category2_binary,
             timeSeconds |->
                 [i \in 1..Len(time_seconds) |->
                     Elem(Float32(time_seconds[i]))]]
    IN  [raised |-> FALSE,
         data |-> data,
         ranges |->
             [width |-> [min |-> ArrayMin(data.width),
                         max |-> ArrayMax(data.width)],
              height |-> [min |-> ArrayMin(data.height),
                          max |-> ArrayMax(data.height)],
              strength |-> [min |-> ArrayMin(data.strength),
                            max |-> ArrayMax(data.strength)],
              time |-> [min |-> ArrayMin(data.timeSeconds),
                        max |-> ArrayMax(data.timeSeconds)],
              categories |-> unique_categories],
         rows |-> Len(time_col)]

Unknown == Str(<<"U", "n", "k", "n", "o", "w", "n">>)

MaxCategories == 4

\* Lines 139-154: the seconds of one cell of the time column, a draw of
\* np.random.uniform when the text has fewer than three parts or int() or
\* float() raises
selectable_time(cell) ==
    IF cell.t # "str" THEN Drawn
    ELSE LET parts == split(cell.v, ":")
         IN  IF Len(parts) < 3 THEN Drawn
             ELSE LET h == PyInt(parts[1])
                      m == PyInt(parts[2])
                      sec == PyFloat(parts[3])
                  IN  IF h = None \/ m = None \/ sec = None THEN Drawn
                      ELSE Elem(Float32(
                               PerSecond * (The(h) * SecondsPerHour
                                              + The(m) * SecondsPerMinute)
                                   + The(sec)))

\* the category_4 codes of a column were unique() not cut to four values
selectable_category_uncut(column) ==
    LET categories ==
            [i \in 1..Len(column) |->
                IF isna(column[i]) THEN Unknown ELSE column[i]]
        unique_cats == unique(categories)
    IN  [i \in 1..Len(categories) |->
            Elem(CodeOf(unique_cats, categories[i]) % Uint8)]

\* Lines 179-182: the category_4 codes of a column
selectable_category(column) ==
    LET categories ==
            [i \in 1..Len(column) |->
                IF isna(column[i]) THEN Unknown ELSE column[i]]
        all == unique(categories)
        unique_cats == SubSeq(all, 1, Min2(Len(all), MaxCategories))
    IN  [i \in 1..Len(categories) |->
            IF categories[i] \in Range(unique_cats)
            THEN Elem(CodeOf(unique_cats, categories[i]) % Uint8)
            ELSE Elem(0)]

\* csv_to_selectable_dashboard.prepare_data(df, args) with every column
\* argument given, so that detect_columns decides nothing; frame as above,
\* rows the number of rows of the CSV
selectable_prepare_data(frame, rows) ==
    [width |->
         IF frame.width = None THEN Draws(rows)
         ELSE FilledFloat32(The(frame.width), mean(The(frame.width))),
     height |->
         IF frame.height = None THEN Draws(rows)
         ELSE FilledFloat32(The(frame.height), mean(The(frame.height))),
     angle |->
         IF frame.angle = None THEN Draws(rows)
         ELSE ModFullTurn(FilledFloat32(The(frame.angle), mean(The(frame.angle)))),
     strength |->
         IF frame.strength = None THEN Draws(rows)
         ELSE FilledFloat32(The(frame.strength), mean(The(frame.strength))),
     category_4 |->
         IF frame.category = None THEN Draws(rows)
         ELSE selectable_category(The(frame.category)),
     category_2 |->
         IF frame.category2 = None THEN Draws(rows)
         ELSE LET unique_vals == unique(The(frame.category2))
              IN  IF Len(unique_vals) >= 2
                  THEN EqualsFlags(The(frame.category2), unique_vals[2])
                  ELSE Zeros(rows),
     timeSeconds |->
         IF frame.time = None THEN Draws(rows)
         ELSE [i \in 1..rows |-> selectable_time(The(frame.time)[i])]]

\* ---- the CSV files the scripts are run on

\* the text of a clock time, the numbers padded to width digits, the
\* seconds in quarters: "H:M" when seconds is None
QuarterText == <<<<>>, <<".", "2", "5">>, <<".", "5">>, <<".", "7", "5">>>>

ClockText(h, m, seconds, width) ==
    ZeroPad(h, width) \o <<":">> \o ZeroPad(m, width)
        \o (IF seconds = None THEN <<>>
            ELSE <<":">> \o ZeroPad(The(seconds) \div PerSecond, width)
                     \o QuarterText[(The(seconds) % PerSecond) + 1])

SampleHours == {0, 7, 23}

SampleMinutes == {0, 5, 59}

\* whole seconds, and seconds with a fraction, in quarters
WholeSeconds == {0, 3 * PerSecond, 59 * PerSecond}

SampleSeconds == WholeSeconds \cup {30 * PerSecond + 2, 1}

ClockCells ==
    {Str(ClockText(h, m, sec, w)) :
        h \in SampleHours, m \in SampleMinutes,
        sec \in {None} \cup {Some(q) : q \in SampleSeconds}, w \in {1, 2}}

\* the text of a number of quarters
NumberText(q) ==
    (IF q < 0 THEN <<"-">> ELSE <<>>)
        \o Decimal(Abs(q) \div PerSecond) \o QuarterText[(Abs(q) % PerSecond) + 1]

SampleNumbers ==
    {0, 42 * PerSecond, 0 - 7 * PerSecond, 14 * PerSecond + 2,
     86399 * PerSecond + 3}

NumberCells == {Number(q) : q \in SampleNumbers}

NumericTextCells ==
    {Str(NumberText(q)) : q \in SampleNumbers}
        \cup {Str(<<" ">> \o NumberText(q) \o <<" ">>) : q \in SampleNumbers}

\* texts neither int() nor float() reads
Unparseable ==
    {Str(<<"a", "b", "c">>), Str(<<>>), Str(<<"1", "2", ":">>),
     Str(<<":", "3", "0">>), Str(<<"a", ":", "b">>),
     Str(<<"1", "2", ":", "3", "0", ":", "x", "x">>),
     Str(<<"1", "2", ":", "3", ".", "5">>),
     Str(<<"1", ".", "2", ".", "3">>), Str(<<"-">>), Str(<<"n", "o", "o", "n">>)}

\* texts the scripts read that are no clock time of the day
OtherTimes ==
    {Str(<<"1", ":", "2", ":", "3", ":", "4">>),
     Str(<<"-", "1", ":", "3", "0", ":", "0", "0">>),
     Str(<<"2", "5", ":", "6", "1", ":", "6", "1">>)}

TimeCells ==
    ClockCells \cup NumberCells \cup NumericTextCells \cup Unparseable
        \cup OtherTimes \cup {NanCell}

\* a column of n cells taken in turn from a list, from its k-th on
Turned(list, k, n) == [i \in 1..n |-> list[((i + k - 2) % Len(list)) + 1]]

\* a column of n cells that hold one value or are missing: the cells at
\* the places in gaps are missing
Gapped(cell, gaps, n) == [i \in 1..n |-> IF i \in gaps THEN NanCell ELSE cell]

TimeTexts ==
    <<Str(ClockText(7, 5, Some(3 * PerSecond), 2)), Str(<<"a", "b", "c">>),
      Str(ClockText(23, 59, Some(59 * PerSecond), 2)), NanCell,
      Str(ClockText(0, 0, None, 1)), Str(NumberText(42 * PerSecond)),
      Str(ClockText(7, 0, Some(30 * PerSecond + 2), 1)),
      Str(<<"1", ":", "2", ":", "3", ":", "4">>)>>

TimeColumns ==
    {Turned(TimeTexts, k, ScriptRows) : k \in 1..Len(TimeTexts)}
        \cup {Turned(<<Number(0), Number(42 * PerSecond),
                       Number(86399 * PerSecond + 3), NanCell>>, k, ScriptRows) :
                 k \in 1..4}

\* angles and measures, in steps
SampleAngles ==
    <<90 * PerUnit, 0, 359 * PerUnit + PerUnit \div 2, 0 - 90 * PerUnit,
      FullTurn * PerUnit, 2 * FullTurn * PerUnit + PerUnit \div 2,
      0 - FullTurn * PerUnit, 0 - 1, 45 * PerUnit, 0 - 3 * FullTurn * PerUnit - 1>>

NumberColumns ==
    {Turned([i \in 1..Len(SampleAngles) |-> Number(SampleAngles[i])],
            k, ScriptRows) : k \in 1..Len(SampleAngles)}
        \cup {Gapped(Number(v), gaps, ScriptRows) :
                 v \in {90 * PerUnit, 0 - 90 * PerUnit, 400 * PerUnit},
                 gaps \in {{1}, {2, 3}, 1..ScriptRows}}

CategoryLabels ==
    {Str(<<"A">>), Str(<<"B">>), Str(<<"C">>), Str(<<"D">>), Str(<<"E">>),
     NanCell}

\* every column of the labels, and one that holds the text 'Unknown'
CategoryColumns ==
    [1..ScriptRows -> CategoryLabels] \cup {Gapped(Unknown, {1}, ScriptRows)}

FewCategoryColumns ==
    {Turned(<<Str(<<"A">>), Str(<<"B">>), NanCell, Str(<<"A">>), Str(<<"C">>),
              Str(<<"D">>), Str(<<"E">>)>>, k, ScriptRows) : k \in 1..7}
        \cup {Gapped(Str(<<"A">>), gaps, ScriptRows) :
                 gaps \in {{1}, {2, 3}, 1..ScriptRows}}

BaseFrame ==
    [time |-> Some(Turned(TimeTexts, 1, ScriptRows)),
     width |-> Some(Gapped(Number(90 * PerUnit), {}, ScriptRows)),
     height |-> Some(Gapped(Number(90 * PerUnit), {}, ScriptRows)),
     angle |-> Some(Gapped(Number(90 * PerUnit), {}, ScriptRows)),
     strength |-> Some(Gapped(Number(90 * PerUnit), {}, ScriptRows)),
     category |-> Some(Gapped(Str(<<"A">>), {}, ScriptRows)),
     category2 |-> None]

\* the frames: one column of the base frame replaced, or left out
ScriptFrames ==
    {[BaseFrame EXCEPT !.time = c] : c \in {None} \cup {Some(x) : x \in TimeColumns}}
    \cup {[BaseFrame EXCEPT ![f] = c] :
             f \in {"width", "height", "angle", "strength"},
             c \in {None} \cup {Some(x) : x \in NumberColumns}}
    \cup {[BaseFrame EXCEPT ![f] = c] :
             f \in {"category", "category2"},
             c \in {None} \cup {Some(x) : x \in FewCategoryColumns}}

\* the base frame with each of the category columns
CategoryFrames ==
    {[BaseFrame EXCEPT !.category = Some(x)] : x \in CategoryColumns}

ScriptsInit ==
    /\ scriptCall = None
    /\ scriptOut = None

\* one call of time_to_seconds
call_time_to_seconds ==
    /\ scriptCall = None
    /\ \E time_val \in TimeCells :
          /\ scriptCall' = Some([fn |-> "time_to_seconds",
                                 input |-> time_val])
          /\ scriptOut' = Some(time_to_seconds(time_val))
    /\ UNCHANGED otherThanScripts

\* csv_to_dashboard.main up to prepare_data
run_csv_to_dashboard ==
    /\ scriptCall = None
    /\ \E frame \in ScriptFrames :
          /\ scriptCall' = Some([fn |-> "csv_to_dashboard", input |-> frame])
          /\ scriptOut' = Some(dashboard_prepare_data(frame))
    /\ UNCHANGED otherThanScripts

\* csv_to_selectable_dashboard.main up to prepare_data
run_csv_to_selectable_dashboard ==
    /\ scriptCall = None
    /\ \E frame \in ScriptFrames \cup CategoryFrames :
          /\ scriptCall' = Some([fn |-> "csv_to_selectable_dashboard",
                                 input |-> frame])
          /\ scriptOut' = Some(selectable_prepare_data(frame, ScriptRows))
    /\ UNCHANGED otherThanScripts

ScriptsNext ==
    \/ call_time_to_seconds
    \/ run_csv_to_dashboard
    \/ run_csv_to_selectable_dashboard

InitScripts ==
    ScriptsInit /\ ExplorerIdle /\ DashIdle /\ ConfigIdle /\ InferIdle /\ V6Idle
        /\ BuildIdle /\ GitIdle

SpecScripts == InitScripts /\ [][ScriptsNext]_vars

\* ------------------------------------------------------------------------
\* Properties of the dashboard scripts
\* ------------------------------------------------------------------------

\* a script has run on a frame
ScriptRan(fn) ==
    /\ scriptCall # None
    /\ The(scriptCall).fn = fn

\* the values of a category column, a missing one named 'Unknown'
Named(column) ==
    [i \in 1..Len(column) |-> IF isna(column[i]) THEN Unknown ELSE column[i]]

\* how many distinct values appear in a column before the value at place i
\* first appears
Rank(named, i) ==
    LET first == CHOOSE j \in 1..i :
                     named[j] = named[i] /\ \A h \in 1..(j - 1) : named[h] # named[i]
    IN  Cardinality({named[j] : j \in 1..(first - 1)})

\* C15: csv_to_selectable_dashboard.prepare_data emits category_4 codes in
\* {0,1,2,3} only: the first four distinct values of the category column, in
\* order of first appearance and a missing value counted as 'Unknown', get
\* the codes 0..3, and every other value gets the code 0.
CategoryCodesAreFirstFour ==
    (ScriptRan("csv_to_selectable_dashboard")
        /\ The(scriptCall).input.category # None) =>
        LET named == Named(The(The(scriptCall).input.category))
            codes == The(scriptOut).category_4
        IN  /\ Len(codes) = Len(named)
            /\ \A i \in 1..Len(named) :
                  /\ codes[i].k = "num"
                  /\ codes[i].v \in 0..3
                  /\ codes[i].v = IF Rank(named, i) < MaxCategories
                                  THEN Rank(named, i) ELSE 0

\* a column of more than four distinct values, one of them missing, has
\* been coded
FiveCategoriesCoded ==
    /\ ScriptRan("csv_to_selectable_dashboard")
    /\ The(scriptCall).input.category # None
    /\ LET column == The(The(scriptCall).input.category)
       IN  /\ \E i \in 1..Len(column) : isna(column[i])
           /\ \E i \in 1..Len(column) :
                 /\ Rank(Named(column), i) >= MaxCategories
                 /\ The(scriptOut).category_4[i] = Elem(0)

\* C16: in csv_to_dashboard.prepare_data and in
\* csv_to_selectable_dashboard.prepare_data every emitted angle a satisfies
\* 0 <= a < 360, for every numeric angle column: negative angles, angles of
\* 360 or more and missing angles included.
AnglesWithinFullTurn ==
    \A fn \in {"csv_to_dashboard", "csv_to_selectable_dashboard"} :
        (ScriptRan(fn) /\ The(scriptCall).input.angle # None) =>
            LET out == The(scriptOut)
                angle == IF fn = "csv_to_dashboard" THEN out.data.angle
                         ELSE out.angle
            IN  (fn = "csv_to_dashboard" => ~out.raised) =>
                    \A i \in 1..Len(angle) :
                        /\ angle[i].k = "num"
                        /\ 0 <= angle[i].v
                        /\ angle[i].v < FullTurn * PerUnit

\* the seconds a clock text names, in quarters
ClockSeconds(h, m, seconds) ==
    PerSecond * (h * 3600 + m * 60) + (IF seconds = None THEN 0 ELSE The(seconds))

\* C17: time_to_seconds never raises; it returns 0 for a missing value, the
\* number itself for a number, h*3600 + m*60 + s for a text 'H:M' or
\* 'H:M:S' (no seconds counting as 0), the number a numeric text writes, and
\* 0 for a text it cannot read; and for whole H:M:S of the day prepare_data
\* formats the result back to the same hours, minutes and seconds, with
\* .000 after them.
TimeToSecondsReadsClock ==
    /\ ScriptRan("time_to_seconds") =>
          LET time_val == The(scriptCall).input
              result == The(scriptOut)
          IN  /\ ~result.raised
              /\ time_val = NanCell => result.value = 0
              /\ time_val \in NumberCells => result.value = time_val.n
              /\ \A h \in SampleHours, m \in SampleMinutes, w \in {1, 2},
                    sec \in {None} \cup {Some(q) : q \in SampleSeconds} :
                      time_val = Str(ClockText(h, m, sec, w))
                          => result.value = ClockSeconds(h, m, sec)
              /\ \A q \in SampleNumbers :
                    time_val \in {Str(NumberText(q)),
                                  Str(<<" ">> \o NumberText(q) \o <<" ">>)}
                        => result.value = q
              /\ time_val \in Unparseable => result.value = 0
    /\ (ScriptRan("csv_to_dashboard") /\ ~The(scriptOut).raised) =>
          LET time_col == The(The(scriptCall).input.time)
              shown == The(scriptOut).data.good_time
          IN  \A i \in 1..Len(time_col) :
                  \A h \in SampleHours, m \in SampleMinutes,
                     sec \in WholeSeconds, w \in {1, 2} :
                      time_col[i] = Str(ClockText(h, m, Some(sec), w))
                          => shown[i] = TwoDigits(h) \o <<":">> \o TwoDigits(m)
                                 \o <<":">> \o TwoDigits(sec \div PerSecond)
                                 \o <<".", "0", "0", "0">>

\* prepare_data has formatted the times of a column that holds a whole
\* clock time, a text that cannot be read and a missing value
ClockTimesFormatted ==
    /\ ScriptRan("csv_to_dashboard")
    /\ ~The(scriptOut).raised
    /\ LET time_col == The(The(scriptCall).input.time)
           out == The(scriptOut).data
       IN  /\ \E i \in 1..Len(time_col) :
                 /\ time_col[i] = Str(ClockText(23, 59, Some(59 * PerSecond), 2))
                 /\ out.good_time[i]
                      = <<"2", "3", ":", "5", "9", ":", "5", "9", ".", "0", "0", "0">>
                 /\ out.timeSeconds[i] = Elem(86399 * PerSecond)
           /\ \E i \in 1..Len(time_col) :
                 /\ time_col[i] \in Unparseable
                 /\ out.timeSeconds[i] = Elem(0)
           /\ \E i \in 1..Len(time_col) :
                 /\ time_col[i] = NanCell
                 /\ out.timeSeconds[i] = Elem(0)

\* ------------------------------------------------------------------------
\* src/scripts/archive/build_embedded_html.py
\* ------------------------------------------------------------------------
\* A file is the tuple of its bytes; the bytes of a text file are written as
\* one-character strings, "CR" and "LF" for the two line-ending characters.

\* '<!-- Base64 encoded Arrow data will be inserted here -->'
Placeholder ==
    <<"<", "!", "-", "-", " ", "B", "a", "s", "e", "6", "4", " ", "e", "n",
      "c", "o", "d", "e", "d", " ", "A", "r", "r", "o", "w", " ", "d", "a",
      "t", "a", " ", "w", "i", "l", "l", " ", "b", "e", " ", "i", "n", "s",
      "e", "r", "t", "e", "d", " ", "h", "e", "r", "e", " ", "-", "-",
      ">">>

\* '<!-- Base64 encoded compressed Arrow data will be inserted here -->'
CompressedPlaceholder ==
    <<"<", "!", "-", "-", " ", "B", "a", "s", "e", "6", "4", " ", "e", "n",
      "c", "o", "d", "e", "d", " ", "c", "o", "m", "p", "r", "e", "s", "s",
      "e", "d", " ", "A", "r", "r", "o", "w", " ", "d", "a", "t", "a", " ",
      "w", "i", "l", "l", " ", "b", "e", " ", "i", "n", "s", "e", "r", "t",
      "e", "d", " ", "h", "e", "r", "e", " ", "-", "-", ">">>

\* the characters of base64 text: A-Za-z0-9+/ and the pad =
B64Alphabet ==
    <<"A", "B", "C", "D", "E", "F", "G", "H", "I", "J", "K", "L", "M", "N",
      "O", "P", "Q", "R", "S", "T", "U", "V", "W", "X", "Y", "Z", "a", "b",
      "c", "d", "e", "f", "g", "h", "i", "j", "k", "l", "m", "n", "o", "p",
      "q", "r", "s", "t", "u", "v", "w", "x", "y", "z", "0", "1", "2", "3",
      "4", "5", "6", "7", "8", "9", "+", "/", "=">>

\* base64.b64encode(data).decode('ascii')
b64text(data) ==
    LET code == b64encode(data) IN [i \in 1..Len(code) |-> B64Alphabet[code[i] + 1]]

RECURSIVE ByteSum(_)
ByteSum(b) == IF Len(b) = 0 THEN 0 ELSE (Head(b) + ByteSum(Tail(b))) % 256

\* gzip.compress(data, compresslevel=9): a gzip member (magic 1f 8b, method
\* 8, no flags, no time, level 2, system 255) around the data and a
\* trailer with the data's length.  The deflate stream and the CRC-32 are
\* not computed: the data stands in one stored block and the checksum field
\* holds the sum of the bytes.
gzip_compress(data) ==
    <<31, 139, 8, 0, 0, 0, 0, 0, 2, 255>>
        \o <<1, Len(data) % 256, Len(data) \div 256,
             255 - (Len(data) % 256), 255 - (Len(data) \div 256)>>
        \o data
        \o <<ByteSum(data), 0, 0, 0, Len(data) % 256, Len(data) \div 256, 0, 0>>

\* open(path, 'r').read(): the text of a file, CR LF and CR read as LF
read_text(bytes) ==
    LET places == [i \in 1..Len(bytes) |-> i]
        kept == SelectSeq(places,
                    LAMBDA i : ~(bytes[i] = "LF" /\ i > 1 /\ bytes[i - 1] = "CR"))
    IN  [j \in 1..Len(kept) |->
            IF bytes[kept[j]] = "CR" THEN "LF" ELSE bytes[kept[j]]]

RECURSIVE Join(_, _)
\* the parts with sep between them
Join(parts, sep) ==
    IF Len(parts) = 1 THEN parts[1]
    ELSE parts[1] \o sep \o Join(Tail(parts), sep)

\* open(path, 'w').write(text): the bytes of the text, each LF written as
\* os.linesep
write_text(text, sep) == Join(split(text, "LF"), sep)

\* old is found at place i of text
FoundAt(text, old, i) ==
    /\ i + Len(old) - 1 <= Len(text)
    /\ SubSeq(text, i, i + Len(old) - 1) = old

\* the place of the first old in text
FirstAt(text, old) ==
    CHOOSE i \in 1..Len(text) :
        FoundAt(text, old, i) /\ \A h \in 1..(i - 1) : ~FoundAt(text, old, h)

\* str.replace(old, new, 1)
replace_first(text, old, new) ==
    IF ~Contains(text, old) THEN text
    ELSE SubSeq(text, 1, FirstAt(text, old) - 1) \o new
            \o SubSeq(text, FirstAt(text, old) + Len(old), Len(text))

RECURSIVE replace(_, _, _)
\* str.replace(old, new) for a non-empty old: every occurrence, from the left
replace(text, old, new) ==
    IF ~Contains(text, old) THEN text
    ELSE SubSeq(text, 1, FirstAt(text, old) - 1) \o new
            \o replace(SubSeq(text, FirstAt(text, old) + Len(old), Len(text)),
                       old, new)

\* embed_arrow_data(html_file, arrow_file, output_file) on the files fs,
\* on a platform whose os.linesep is sep
embed_arrow_data(fs, sep) ==
    LET html_content == read_text(fs.html)
        arrow_data == fs.arrow
        encoded_data == b64text(arrow_data)
        compressed_encoded == b64text(gzip_compress(arrow_data))
    IN  IF ~Contains(html_content, Placeholder)
        THEN [ret |-> FALSE, fs |-> fs]
        ELSE [ret |-> TRUE,
              fs |-> [fs EXCEPT !.output =
                         Some(write_text(replace(html_content, Placeholder,
                                                 encoded_data), sep))]]

\* embed_arrow_data_compressed(html_file, arrow_file, output_file)
embed_arrow_data_compressed(fs, sep) ==
    LET html_content == read_text(fs.html)
        arrow_data == fs.arrow
        compressed_data == gzip_compress(arrow_data)
        compressed_encoded == b64text(compressed_data)
    IN  IF ~Contains(html_content, CompressedPlaceholder)
        THEN [ret |-> FALSE, fs |-> fs]
        ELSE [ret |-> TRUE,
              fs |-> [fs EXCEPT !.output =
                         Some(write_text(replace(html_content,
                                                 CompressedPlaceholder,
                                                 compressed_encoded), sep))]]

\* ---- the files the functions are called on

HtmlOpen == <<"<", "p", ">">>

HtmlClose == <<"<", "/", "p", ">", "CR", "LF">>

\* the texts around the placeholders of a template: one part for a template
\* without a placeholder
TemplateParts ==
    {<<HtmlOpen \o HtmlClose>>,
     <<SubSeq(Placeholder, 1, Len(Placeholder) - 1)>>,
     <<<<"<", "!", "-", "-", " ", "-", "-", ">", "LF">>>>,
     <<HtmlOpen, HtmlClose>>,
     <<<<>>, <<>>>>,
     <<HtmlOpen, <<"LF">>, HtmlClose>>,
     <<<<"<", "!", "-", "-">>, <<"-", "-", ">", "LF">>>>,
     <<<<>>, <<>>, <<>>>>,
     <<<<"a", "CR">>, <<"b">>, <<>>, <<"c", "LF">>>>}

Templates ==
    {Join(parts, sep) :
        parts \in TemplateParts, sep \in {Placeholder, CompressedPlaceholder}}

\* Arrow files: none of the bytes, one byte, and ARROW1 with padding
ArrowFiles == {<<>>, <<255>>, <<65, 82, 82, 79, 87, 49, 0, 0>>}

OldOutputs == {None, Some(<<"o", "l", "d">>)}

Lineseps == {<<"LF">>, <<"CR", "LF">>}

BuildInit ==
    /\ files \in {[html |-> h, arrow |-> a, output |-> o] :
                     h \in Templates, a \in ArrowFiles, o \in OldOutputs}
    /\ linesep \in Lineseps
    /\ buildCall = None
    /\ buildBefore = None
    /\ buildRet = None

call_embed_arrow_data ==
    /\ buildCall = None
    /\ LET done == embed_arrow_data(files, linesep)
       IN  /\ files' = done.fs
           /\ buildRet' = Some(done.ret)
    /\ buildCall' = Some("embed_arrow_data")
    /\ buildBefore' = Some(files)
    /\ UNCHANGED <<linesep, otherThanBuild>>

call_embed_arrow_data_compressed ==
    /\ buildCall = None
    /\ LET done == embed_arrow_data_compressed(files, linesep)
       IN  /\ files' = done.fs
           /\ buildRet' = Some(done.ret)
    /\ buildCall' = Some("embed_arrow_data_compressed")
    /\ buildBefore' = Some(files)
    /\ UNCHANGED <<linesep, otherThanBuild>>

BuildNext ==
    \/ call_embed_arrow_data
    \/ call_embed_arrow_data_compressed

InitBuild ==
    BuildInit /\ ExplorerIdle /\ DashIdle /\ ConfigIdle /\ InferIdle /\ V6Idle
        /\ ScriptsIdle /\ GitIdle

SpecBuild == InitBuild /\ [][BuildNext]_vars

\* ------------------------------------------------------------------------
\* Properties of build_embedded_html.py
\* ------------------------------------------------------------------------

PlotNeedsItsAxes ==
    [][lastOp' = "create_plot" =>
          LET call == The(lastCall')
              twoAxis == call.type \in {"scatter", "line", "heatmap",
                                        "3d_scatter", "surface"}
          IN  /\ (df = None \/ call.x = None \/ (twoAxis /\ call.y = None)) =>
                    /\ escaped' = "none"
                    /\ notice' \in
                         {"Please select at least an X-axis column",
                          "Scatter plot requires both X and Y columns",
                          "Line plot requires both X and Y columns",
                          "Heatmap requires both X and Y columns",
                          "3D scatter plot requires both X and Y columns",
                          "Surface plot requires both X and Y columns"}
                    /\ plot_area' = plot_area
                    /\ plot_times' = plot_times
              /\ (df # None /\ call.x # None /\ call.y = None /\ ~twoAxis) =>
                    /\ escaped' = "none"
                    /\ \/ plot_area' = call.type /\ plot_times' = plot_times + 1
                       \/ notice' = "Plot creation failed"]_vars

\* C20: apply_advanced_filter with an empty filter value reports 'Please
\* enter a filter value' and leaves df as it was; with no data loaded or no
\* filter column selected it does nothing: no error and no change of state.
EmptyFilterValueIsReported ==
    [][lastOp' = "apply_advanced_filter" =>
          LET call == The(lastCall')
          IN  /\ (df # None /\ call.column /\ ~call.value) =>
                    /\ escaped' = "none"
                    /\ notice' = "Please enter a filter value"
                    /\ df' = df
              /\ (df = None \/ ~call.column) =>
                    /\ escaped' = "none"
                    /\ UNCHANGED <<df, original_df, file_path, temp_files,
                                   status, notice, plot_area, plot_times>>]_vars

\* ------------------------------------------------------------------------
\* Properties of DataExplorerConfig.load_json
\* ------------------------------------------------------------------------

\* the JSON document of the load_json call that ran last and returned
JsonLoaded ==
    /\ cfgCall.op = "load_json"
    /\ cfgCall.arg > 0
    /\ ~cfgRaised

\* the records a JSON document brings: the list itself, the value of its
\* "data" key, or the one object
RecordsOf(doc) ==
    IF doc.kind = "list" THEN doc.list
    ELSE IF HasKey(doc.dict, "data") THEN Get(doc.dict, "data", <<>>)
    ELSE <<doc.dict>>

\* the document carries a non-empty value under the key
Supplies(doc, key) ==
    /\ doc.kind = "dict"
    /\ HasKey(doc.dict, "data")
    /\ HasKey(doc.dict, key)
    /\ Get(doc.dict, key, <<>>) # <<>>

\* C21: after load_json of a file that supplies no columnTypes, the config's
\* columnTypes are the types inferred from the records just loaded, and after
\* a file that supplies no chartTypes its chartTypes are the charts generated
\* from those records, whatever the loader held before the call.
JsonTypesInferredFromLoadedData ==
    JsonLoaded =>
        LET doc == JsonDocs[cfgCall.arg]
            frame == DataFrame(RecordsOf(doc))
            types == _infer_column_types(frame)
        IN  /\ ~Supplies(doc, "columnTypes") => config.columnTypes = types
            /\ ~Supplies(doc, "chartTypes") =>
                  config.chartTypes = _generate_chart_configs(types, frame)

-----------------------------------------------------------------------------
(* git_commit.py and run_git.py                                             *)
(*                                                                         *)
(* The working copy is what the scripts can observe and change through     *)
(* git: the number of commits, whether remote origin is configured, the    *)
(* branch name, how many commits were pushed, and the build files that     *)
(* main removes before it starts.  Whether a git command exits with zero   *)
(* is the environment's choice (nothing to commit, a hook, the network),   *)
(* except that a push cannot succeed without a remote.                     *)

MaxCommits == 2

BuildDirs == {"dist", "node_modules"}

BuildDumps == {"bash.exe.stackdump", "sh.exe.stackdump"}

GitAdd == "git add ."

GitFirstCommit == "git commit -m \"first commit\""

GitBranchMain == "git branch -M main"

GitRemoteAdd ==
    "git remote add origin https://github.com/Anthonymm0994/leaflet.git"

GitPushUpstream == "git push -u origin main"

GitCommit ==
    "git commit -m \"Update: Clean build files and improve gitignore\""

GitPush == "git push"

GitCommands ==
    {GitAdd, GitFirstCommit, GitBranchMain, GitRemoteAdd, GitPushUpstream,
     GitCommit, GitPush}

\* what a command that exits with zero does to the working copy
GitEffect(repo, command) ==
    IF command \in {GitFirstCommit, GitCommit}
    THEN [repo EXCEPT !.commits = @ + 1]
    ELSE IF command = GitBranchMain THEN [repo EXCEPT !.branch = "main"]
    ELSE IF command = GitRemoteAdd THEN [repo EXCEPT !.remote = TRUE]
    ELSE IF command \in {GitPushUpstream, GitPush}
    THEN [repo EXCEPT !.pushed = repo.commits]
    ELSE repo

\* git can exit with zero at all
GitCan(repo, command) ==
    /\ command \in {GitPushUpstream, GitPush} => repo.remote
    /\ command = GitRemoteAdd => ~repo.remote

\* subprocess.run(command, shell=True, check=True, ...): the command is
\* attempted, and its outcome is remembered
subprocess_run(state, command, out) ==
    LET ok == out[command] /\ GitCan(state.repo, command)
    IN  [repo |-> IF ok THEN GitEffect(state.repo, command) ELSE state.repo,
         ran |-> Append(state.ran, [command |-> command, ok |-> ok])]

\* a run_command that reports success whatever the command did
run_command_unchecked(done) == TRUE

\* run_command(command, description): True unless subprocess.run raised
\* CalledProcessError; done is the state after the attempt
run_command(done) == done.ran[Len(done.ran)].ok

\* check_first_commit(): git log fails or prints nothing
check_first_commit(repo) == repo.commits = 0

\* check_remote_exists(): git remote get-url origin exits with zero
check_remote_exists(repo) == repo.remote

Returned(state, value) ==
    [repo |-> state.repo, ran |-> state.ran, ret |-> value]

\* main() of git_commit.py; kept are the build files that could not be
\* removed
git_commit_main(repo, out, kept) ==
    LET s0 == [repo |-> [repo EXCEPT !.build = @ \cap kept], ran |-> <<>>]
        s1 == subprocess_run(s0, GitAdd, out)
    IN  IF ~run_command(s1) THEN Returned(s1, FALSE)
        ELSE IF check_first_commit(s1.repo)
        THEN LET s2 == subprocess_run(s1, GitFirstCommit, out)
             IN  IF ~run_command(s2) THEN Returned(s2, FALSE)
                 ELSE
                 LET s3 == subprocess_run(s2, GitBranchMain, out)
                 IN  IF ~run_command(s3) THEN Returned(s3, FALSE)
                     ELSE
                     LET add == ~check_remote_exists(s3.repo)
                         s4 == IF add
                               THEN subprocess_run(s3, GitRemoteAdd, out)
                               ELSE s3
                     IN  IF add /\ ~run_command(s4) THEN Returned(s4, FALSE)
                         ELSE
                         LET s5 == subprocess_run(s4, GitPushUpstream, out)
                         IN  IF ~run_command(s5) THEN Returned(s5, FALSE)
                             ELSE Returned(s5, TRUE)
        ELSE LET s2 == subprocess_run(s1, GitCommit, out)
             IN  IF ~run_command(s2) THEN Returned(s2, FALSE)
                 ELSE
                 LET s3 == subprocess_run(s2, GitPush, out)
                 IN  IF ~run_command(s3) THEN Returned(s3, FALSE)
                     ELSE Returned(s3, TRUE)

RECURSIVE RunEach(_, _, _)
\* the loop of run_git_commands over the commands still to run
RunEach(state, commands, out) ==
    IF commands = <<>> THEN Returned(state, TRUE)
    ELSE LET done == subprocess_run(state, Head(commands), out)
         IN  IF ~done.ran[Len(done.ran)].ok THEN Returned(done, FALSE)
             ELSE RunEach(done, Tail(commands), out)

\* run_git_commands() of run_git.py
run_git_commands(repo, out) ==
    RunEach([repo |-> repo, ran |-> <<>>], <<GitAdd, GitCommit, GitPush>>, out)

WorkingCopies ==
    {[commits |-> c, remote |-> r, branch |-> b, pushed |-> p, build |-> f] :
        c \in 0..1, r \in BOOLEAN, b \in {"master", "main"}, p \in 0..1,
        f \in {{}, {"dist"}, BuildDirs \cup BuildDumps}}

GitInit ==
    /\ gitRepo \in {w \in WorkingCopies :
                       w.pushed <= w.commits /\ (w.pushed > 0 => w.remote)}
    /\ gitProg = "none"
    /\ gitRan = <<>>
    /\ gitRet = None
    /\ gitBefore = None

run_git_commit ==
    /\ gitRepo.commits < MaxCommits
    /\ \E out \in [GitCommands -> BOOLEAN], kept \in SUBSET gitRepo.build :
          LET done == git_commit_main(gitRepo, out, kept)
          IN  /\ gitRepo' = done.repo
              /\ gitRan' = done.ran
              /\ gitRet' = Some(done.ret)
    /\ gitProg' = "git_commit"
    /\ gitBefore' = Some(gitRepo)
    /\ UNCHANGED otherThanGit

run_run_git ==
    /\ gitRepo.commits < MaxCommits
    /\ \E out \in [GitCommands -> BOOLEAN] :
          LET done == run_git_commands(gitRepo, out)
          IN  /\ gitRepo' = done.repo
              /\ gitRan' = done.ran
              /\ gitRet' = Some(done.ret)
    /\ gitProg' = "run_git"
    /\ gitBefore' = Some(gitRepo)
    /\ UNCHANGED otherThanGit

GitNext ==
    \/ run_git_commit
    \/ run_run_git

InitGit ==
    GitInit /\ ExplorerIdle /\ DashIdle /\ ConfigIdle /\ InferIdle /\ V6Idle
        /\ ScriptsIdle /\ BuildIdle

SpecGit == InitGit /\ [][GitNext]_vars

\* ------------------------------------------------------------------------
\* Properties of git_commit.py
\* ------------------------------------------------------------------------

IsPrefix(s, t) == Len(s) <= Len(t) /\ \A i \in 1..Len(s) : s[i] = t[i]

\* the steps in their order: add, commit, on a first commit the branch
\* rename and, where no remote origin exists, its addition, then push
StepsInOrder(repo) ==
    IF repo.commits = 0
    THEN <<GitAdd, GitFirstCommit, GitBranchMain>>
         \o (IF repo.remote THEN <<>> ELSE <<GitRemoteAdd>>)
         \o <<GitPushUpstream>>
    ELSE <<GitAdd, GitCommit, GitPush>>

Attempted == [i \in 1..Len(gitRan) |-> gitRan[i].command]

\* C22: a run of git_commit.main attempts its commands in the order add,
\* commit, (on a first commit only: branch rename, then remote add where no
\* remote origin exists), push; every command before the last attempted one
\* succeeded, so nothing follows a failed command, and main returns True
\* only when all the steps were attempted and the push, the last of them,
\* succeeded.
MainRunsStepsInOrder ==
    gitProg = "git_commit" =>
        LET steps == StepsInOrder(The(gitBefore))
        IN  /\ Len(gitRan) >= 1
            /\ IsPrefix(Attempted, steps)
            /\ \A i \in 1..(Len(gitRan) - 1) : gitRan[i].ok
            /\ gitRet = Some(TRUE) =>
                  /\ Len(gitRan) = Len(steps)
                  /\ gitRan[Len(gitRan)].ok
            /\ gitRet = Some(FALSE) => ~gitRan[Len(gitRan)].ok

\* a first commit that added the remote, pushed and returned True
FirstCommitPushed ==
    /\ gitProg = "git_commit"
    /\ The(gitBefore).commits = 0
    /\ Attempted = <<GitAdd, GitFirstCommit, GitBranchMain, GitRemoteAdd,
                     GitPushUpstream>>
    /\ gitRet = Some(TRUE)
    /\ gitRepo.pushed = 1

\* ------------------------------------------------------------------------
\* Properties of ArrowDataExplorer.__init__
\* ------------------------------------------------------------------------

FreshlyConstructed == lastOp = "init"

\* C23: a freshly constructed ArrowDataExplorer has the attributes df,
\* file_path and dashboard, and no data loaded: df and file_path are None.
FreshExplorerExposesAttributes ==
    FreshlyConstructed =>
        /\ \A name \in {"df", "file_path", "dashboard"} :
              hasattr(attributes, name)
        /\ df = None
        /\ file_path = None

====
